---- MODULE Spec2Model ----
(***************************************************************************)
(* State-machine model of AutopilotManager (flyPath, startOrbit,           *)
(* stopOrbit, flyPathWithTargetLock, stopLock, the clock's tick listeners  *)
(* and the flyTo leg callbacks) of cesium-flight-simulator, and of the     *)
(* altitude and speed functions of TerrainAvoidanceSystem.                 *)
(*                                                                         *)
(* JavaScript is single-threaded: every handler below runs to completion,  *)
(* so one action is one handler, one callback, or one continuation of an   *)
(* await.                                                                  *)
(***************************************************************************)
EXTENDS Integers, Sequences, FiniteSets, TLC

----------------------------------------------------------------------------
(* Bounds of the model *)

MaxRuns == 2
MaxWaypoints == 3
\* waypoints of a path handed to adjustPathForTerrainAvoidance
MaxPathPoints == 4

(* Program constants *)

FullCircle == 360
DefaultLockDuration == 20

(* Inputs *)

\* lengths of the waypoint list handed to flyPath: empty, one point, longest
WaypointCounts == {0, 1, MaxWaypoints}

\* degrees per tick handed to startOrbit (its `speed` parameter)
OrbitSpeeds == {0, 180, -250}
\* the orbit of the documentation: 10 degrees per tick
SlowOrbitSpeeds == {10}
\* seconds by which clock.currentTime advances between two ticks
TickSeconds == {0, 10}
\* camera paths handed to flyPathWithTargetLock, as positions along a line
LockPaths == {<<0>>, <<0, 120>>, <<0, 120, 0>>}
\* options.speed and options.duration; 0 stands for "not given"
LockSpeeds == {0, 60}
LockDurations == {0, 10}

RunIds == 1..MaxRuns
NoRun == [n |-> 0, idx |-> 0]

----------------------------------------------------------------------------
VARIABLES
    contentCreationMode, \* AutopilotManager.contentCreationMode
    terrainAvoidance,    \* AutopilotManager.terrainAvoidance is not null
    isFlying,       \* AutopilotManager.isFlying
    isOrbiting,     \* AutopilotManager.isOrbiting
    isLocked,       \* AutopilotManager.isLocked
    inputLocked,    \* the InputManager's flag written by setInputLocked
    orbitListener,  \* remove-callback of the orbit tick listener, 0 = undefined
    lockListener,   \* remove-callback of the lock tick listener, 0 = undefined
    onTick,         \* viewer.clock.onTick: the attached listeners, in order
    cameraFrame,    \* reference frame set by camera.lookAtTransform
    runs,           \* flyPath calls suspended at `await flyToPointWithAvoidance`
    currentFlight,  \* the run whose leg the camera is flying, 0 = no flight
    microtasks,     \* continuations of resolved awaits, in the order queued
    onCompleteCalls,\* invocations of the onComplete of the latest startOrbit
    effects,        \* calls made on the collaborators by the latest handler
    lastOp,         \* the latest handler; a stop repeated at once is marked
    guideLineEntity,\* AutopilotManager.guideLineEntity, FALSE = undefined
    planner         \* the latest call of TerrainAvoidanceSystem and its result

vars == <<contentCreationMode, terrainAvoidance, isFlying, isOrbiting,
          isLocked, inputLocked, orbitListener, lockListener, onTick,
          cameraFrame, runs, currentFlight, microtasks, onCompleteCalls,
          effects, lastOp, guideLineEntity, planner>>

\* the program state as one value, so that a handler is a function on it
cur ==
    [contentCreationMode |-> contentCreationMode,
     terrainAvoidance |-> terrainAvoidance,
     isFlying |-> isFlying, isOrbiting |-> isOrbiting, isLocked |-> isLocked,
     inputLocked |-> inputLocked, orbitListener |-> orbitListener,
     lockListener |-> lockListener, onTick |-> onTick,
     cameraFrame |-> cameraFrame, runs |-> runs,
     currentFlight |-> currentFlight, microtasks |-> microtasks,
     onCompleteCalls |-> onCompleteCalls, effects |-> effects,
     lastOp |-> lastOp, guideLineEntity |-> guideLineEntity]

\* the autopilot and its collaborators after a handler
Moves(s) ==
    /\ contentCreationMode' = s.contentCreationMode
    /\ terrainAvoidance' = s.terrainAvoidance
    /\ isFlying' = s.isFlying
    /\ isOrbiting' = s.isOrbiting
    /\ isLocked' = s.isLocked
    /\ inputLocked' = s.inputLocked
    /\ orbitListener' = s.orbitListener
    /\ lockListener' = s.lockListener
    /\ onTick' = s.onTick
    /\ cameraFrame' = s.cameraFrame
    /\ runs' = s.runs
    /\ currentFlight' = s.currentFlight
    /\ microtasks' = s.microtasks
    /\ onCompleteCalls' = s.onCompleteCalls
    /\ effects' = s.effects
    /\ lastOp' = s.lastOp
    /\ guideLineEntity' = s.guideLineEntity

Becomes(s) ==
    /\ Moves(s)
    /\ planner' = planner

\* entry of a handler: a fresh list of effects
Begin(name) == [cur EXCEPT !.effects = << >>, !.lastOp = name]

\* entry of stopOrbit or stopLock
BeginStop(name) ==
    [cur EXCEPT !.effects = << >>,
                !.lastOp = IF cur.lastOp \in {name, name \o " again"}
                           THEN name \o " again" ELSE name]

Emit(s, e) == [s EXCEPT !.effects = Append(@, e)]

Abs(x) == IF x < 0 THEN -x ELSE x

----------------------------------------------------------------------------
(* Collaborators *)

setInputLocked(s, b) ==
    Emit([s EXCEPT !.inputLocked = b],
         IF b THEN "setInputLocked(true)" ELSE "setInputLocked(false)")

lookAtTransform(s, frame) ==
    Emit([s EXCEPT !.cameraFrame = frame],
         IF frame = "IDENTITY" THEN "lookAtTransform(IDENTITY)"
                               ELSE "lookAtTransform(orbit)")

ListenerIds(s) == {s.onTick[i].id : i \in 1..Len(s.onTick)}

\* identity of a newly created listener closure
FreshId(s) ==
    CHOOSE i \in 1..(Len(s.onTick) + 3) :
        /\ i \notin ListenerIds(s) \cup {s.orbitListener, s.lockListener}
        /\ \A j \in 1..(i - 1) :
              j \in ListenerIds(s) \cup {s.orbitListener, s.lockListener}

addEventListener(s, closure) == [s EXCEPT !.onTick = Append(@, closure)]

removeEventListener(s, id) ==
    [s EXCEPT !.onTick = SelectSeq(@, LAMBDA c : c.id # id)]

----------------------------------------------------------------------------
(* stopOrbit and stopLock *)

\* stopOrbit without the unsubscription of the tick listener
stopOrbit_KeepsListener(s) ==
    IF s.isOrbiting
    THEN lookAtTransform(
             setInputLocked([s EXCEPT !.isOrbiting = FALSE], FALSE),
             "IDENTITY")
    ELSE s

\* stopOrbit without `setInputLocked(false)`
stopOrbit_NoUnlock(s) ==
    LET s1 == IF s.orbitListener # 0
              THEN Emit([removeEventListener(s, s.orbitListener)
                            EXCEPT !.orbitListener = 0],
                        "removeOrbitListener")
              ELSE s
    IN  IF s1.isOrbiting
        THEN lookAtTransform([s1 EXCEPT !.isOrbiting = FALSE], "IDENTITY")
        ELSE s1

stopOrbit(s) ==
    LET s1 == IF s.orbitListener # 0
              THEN Emit([removeEventListener(s, s.orbitListener)
                            EXCEPT !.orbitListener = 0],
                        "removeOrbitListener")
              ELSE s
    IN  IF s1.isOrbiting
        THEN lookAtTransform(
                 setInputLocked([s1 EXCEPT !.isOrbiting = FALSE], FALSE),
                 "IDENTITY")
        ELSE s1

\* stopLock releasing the input lock whether or not a Lock run is active
stopLock_AlwaysUnlocks(s) ==
    LET s1 == IF s.lockListener # 0
              THEN Emit([removeEventListener(s, s.lockListener)
                            EXCEPT !.lockListener = 0],
                        "removeLockListener")
              ELSE s
    IN  setInputLocked([s1 EXCEPT !.isLocked = FALSE], FALSE)

stopLock(s) ==
    LET s1 == IF s.lockListener # 0
              THEN Emit([removeEventListener(s, s.lockListener)
                            EXCEPT !.lockListener = 0],
                        "removeLockListener")
              ELSE s
    IN  IF s1.isLocked
        THEN setInputLocked([s1 EXCEPT !.isLocked = FALSE], FALSE)
        ELSE s1

isActive(s) == s.isFlying \/ s.isOrbiting \/ s.isLocked

\* a point inside a handler at which no mode is active is recorded
Observe(s) ==
    IF ~isActive(s) /\ s.onTick = << >> THEN Emit(s, "idle") ELSE s

----------------------------------------------------------------------------
(* Orbit *)

Closure(s, id) ==
    LET i == CHOOSE k \in 1..Len(s.onTick) : s.onTick[k].id = id
    IN  s.onTick[i]

SetClosure(s, c) ==
    [s EXCEPT !.onTick =
        [k \in 1..Len(@) |-> IF @[k].id = c.id THEN c ELSE @[k]]]

\* the caller's onComplete callback
onComplete(s) ==
    Emit([s EXCEPT !.onCompleteCalls = @ + 1], "onComplete")

\* the listener calling onComplete outside `if (totalRotation >= 360)`
orbitTick_CompletesEveryTick(s, id) ==
    IF ~s.isOrbiting THEN s
    ELSE
        LET c  == Closure(s, id)
            c1 == [c EXCEPT !.totalRotation = @ + Abs(c.speed)]
            s1 == lookAtTransform(SetClosure(s, c1), "orbit")
            s2 == IF c1.totalRotation >= FullCircle THEN stopOrbit(s1) ELSE s1
        IN  IF c.onComplete THEN onComplete(s2) ELSE s2

\* the listener that startOrbit subscribes to the clock
orbitTick(s, id) ==
    IF ~s.isOrbiting THEN s
    ELSE
        LET c  == Closure(s, id)
            c1 == [c EXCEPT !.totalRotation = @ + Abs(c.speed)]
            s1 == lookAtTransform(SetClosure(s, c1), "orbit")
        IN  IF c1.totalRotation >= FullCircle
            THEN LET s2 == stopOrbit(s1)
                 IN  IF c.onComplete THEN onComplete(s2) ELSE s2
            ELSE s1

\* startOrbit with totalRotation kept across restarts instead of `let
\* totalRotation = 0`
startOrbit_KeepsRotation(s, speed, hasOnComplete) ==
    LET kept == IF s.isOrbiting
                THEN Closure(s, s.orbitListener).totalRotation ELSE 0
        s1 == IF s.isOrbiting THEN stopOrbit(s) ELSE s
        s2 == IF s1.isLocked THEN stopLock(s1) ELSE s1
        s3 == setInputLocked([Observe(s2) EXCEPT !.isOrbiting = TRUE], TRUE)
        s4 == lookAtTransform(s3, "orbit")
        id == FreshId(s4)
        closure == [id |-> id, kind |-> "orbit", speed |-> speed,
                    totalRotation |-> kept, onComplete |-> hasOnComplete,
                    elapsed |-> 0, totalDuration |-> 0, times |-> << >>]
    IN  Emit([addEventListener(s4, closure)
                 EXCEPT !.orbitListener = id, !.onCompleteCalls = 0],
             "addOrbitListener")

\* startOrbit without `if (this.isOrbiting) this.stopOrbit()`
startOrbit_NoStopOrbit(s, speed, hasOnComplete) ==
    LET s2 == IF s.isLocked THEN stopLock(s) ELSE s
        s3 == setInputLocked([Observe(s2) EXCEPT !.isOrbiting = TRUE], TRUE)
        s4 == lookAtTransform(s3, "orbit")
        id == FreshId(s4)
        closure == [id |-> id, kind |-> "orbit", speed |-> speed,
                    totalRotation |-> 0, onComplete |-> hasOnComplete,
                    elapsed |-> 0, totalDuration |-> 0, times |-> << >>]
    IN  Emit([addEventListener(s4, closure)
                 EXCEPT !.orbitListener = id, !.onCompleteCalls = 0],
             "addOrbitListener")

\* startOrbit without `if (this.isLocked) this.stopLock()`
startOrbit_NoStopLock(s, speed, hasOnComplete) ==
    LET s1 == IF s.isOrbiting THEN stopOrbit(s) ELSE s
        s3 == setInputLocked([Observe(s1) EXCEPT !.isOrbiting = TRUE], TRUE)
        s4 == lookAtTransform(s3, "orbit")
        id == FreshId(s4)
        closure == [id |-> id, kind |-> "orbit", speed |-> speed,
                    totalRotation |-> 0, onComplete |-> hasOnComplete,
                    elapsed |-> 0, totalDuration |-> 0, times |-> << >>]
    IN  Emit([addEventListener(s4, closure)
                 EXCEPT !.orbitListener = id, !.onCompleteCalls = 0],
             "addOrbitListener")

startOrbit(s, speed, hasOnComplete) ==
    LET s1 == IF s.isOrbiting THEN stopOrbit(s) ELSE s
        s2 == IF s1.isLocked THEN stopLock(s1) ELSE s1
        s3 == setInputLocked([Observe(s2) EXCEPT !.isOrbiting = TRUE], TRUE)
        s4 == lookAtTransform(s3, "orbit")
        id == FreshId(s4)
        closure == [id |-> id, kind |-> "orbit", speed |-> speed,
                    totalRotation |-> 0, onComplete |-> hasOnComplete,
                    elapsed |-> 0, totalDuration |-> 0, times |-> << >>]
    IN  Emit([addEventListener(s4, closure)
                 EXCEPT !.orbitListener = id, !.onCompleteCalls = 0],
             "addOrbitListener")

----------------------------------------------------------------------------
(* Target lock *)

RECURSIVE PathLength(_)
PathLength(path) ==
    IF Len(path) < 2 THEN 0
    ELSE Abs(path[2] - path[1]) + PathLength(Tail(path))

\* the total duration with a given duration winning over the speed
LockTotalDuration_DurationFirst(path, speed, duration) ==
    IF duration # 0 THEN duration
    ELSE IF speed > 0 THEN PathLength(path) \div speed
         ELSE DefaultLockDuration

\* options.duration || 20, overridden by totalLength / options.speed
LockTotalDuration(path, speed, duration) ==
    IF speed > 0 THEN PathLength(path) \div speed
    ELSE IF duration # 0 THEN duration ELSE DefaultLockDuration

\* times of the spline: i / (length - 1) * totalDuration, i from 0
splineTimes(path, totalDuration) ==
    [k \in 1..Len(path) |-> ((k - 1) * totalDuration) \div (Len(path) - 1)]

\* the lock listener comparing with > where the code has >=
lockTick_StrictlyGreater(s, id) ==
    IF ~s.isLocked THEN s
    ELSE
        LET c == Closure(s, id)
        IN  IF c.elapsed > c.totalDuration
            THEN stopLock(s)
            ELSE Emit(s, "camera.position")

\* the listener that flyPathWithTargetLock subscribes to the clock;
\* c.elapsed is secondsDifference(clock.currentTime, startTime)
lockTick(s, id) ==
    IF ~s.isLocked THEN s
    ELSE
        LET c == Closure(s, id)
        IN  IF c.elapsed >= c.totalDuration
            THEN stopLock(s)
            ELSE Emit(s, "camera.position")

\* flyPathWithTargetLock stopping the orbit before it tests its guard
flyPathWithTargetLock_StopsOrbitFirst(s, path, speed, duration) ==
    LET s1 == IF s.isOrbiting THEN stopOrbit(s) ELSE s
    IN  IF s1.isLocked \/ Len(path) < 2 THEN s1
        ELSE
            LET s2 == IF s1.isFlying THEN [s1 EXCEPT !.isFlying = FALSE]
                      ELSE s1
                s3 == setInputLocked([Observe(s2) EXCEPT !.isLocked = TRUE],
                                     TRUE)
                id == FreshId(s3)
                totalDuration == LockTotalDuration(path, speed, duration)
                closure == [id |-> id, kind |-> "lock", speed |-> 0,
                            totalRotation |-> 0, onComplete |-> FALSE,
                            elapsed |-> 0, totalDuration |-> totalDuration,
                            times |-> splineTimes(path, totalDuration)]
            IN  Emit([addEventListener(s3, closure)
                         EXCEPT !.lockListener = id],
                     "addLockListener")

flyPathWithTargetLock(s, path, speed, duration) ==
    IF s.isLocked \/ Len(path) < 2 THEN s
    ELSE
        LET s1 == IF s.isOrbiting THEN stopOrbit(s) ELSE s
            s2 == IF s1.isFlying THEN [s1 EXCEPT !.isFlying = FALSE] ELSE s1
            s3 == setInputLocked([Observe(s2) EXCEPT !.isLocked = TRUE],
                                 TRUE)
            id == FreshId(s3)
            totalDuration == LockTotalDuration(path, speed, duration)
            closure == [id |-> id, kind |-> "lock", speed |-> 0,
                        totalRotation |-> 0, onComplete |-> FALSE,
                        elapsed |-> 0, totalDuration |-> totalDuration,
                        times |-> splineTimes(path, totalDuration)]
        IN  Emit([addEventListener(s3, closure) EXCEPT !.lockListener = id],
                 "addLockListener")

----------------------------------------------------------------------------
(* The guide line *)

hideGuideLine(s) ==
    IF s.guideLineEntity
    THEN [Emit(s, "entities.remove") EXCEPT !.guideLineEntity = FALSE]
    ELSE s

\* showGuideLine clearing the lock run where the code clears the old line
showGuideLine_StopsLock(s) ==
    [Emit(stopLock(s), "entities.add") EXCEPT !.guideLineEntity = TRUE]

showGuideLine(s) ==
    [Emit(hideGuideLine(s), "entities.add") EXCEPT !.guideLineEntity = TRUE]

----------------------------------------------------------------------------
(* The clock *)

\* clock.currentTime advances: every lock run sees a larger elapsed time
advanceTime(s, dt) ==
    [s EXCEPT !.onTick =
        [k \in 1..Len(@) |->
            IF @[k].kind = "lock"
            THEN [@[k] EXCEPT !.elapsed = @ + dt] ELSE @[k]]]

\* Event.raiseEvent: the listeners attached when the event is raised are
\* called in order; one removed meanwhile is skipped
RECURSIVE raiseEvent(_, _)
raiseEvent(s, ids) ==
    IF ids = << >> THEN s
    ELSE
        LET id == Head(ids)
            s1 == IF id \notin ListenerIds(s) THEN s
                  ELSE IF Closure(s, id).kind = "orbit"
                       THEN orbitTick(s, id)
                       ELSE lockTick(s, id)
        IN  raiseEvent(s1, Tail(ids))

clockTick(s, dt) ==
    LET s1 == advanceTime(s, dt)
    IN  raiseEvent(s1, [k \in 1..Len(s1.onTick) |-> s1.onTick[k].id])

----------------------------------------------------------------------------
(* The safety features *)

initTerrainAvoidance(s) == [s EXCEPT !.terrainAvoidance = TRUE]

setContentCreationMode(s, enabled) ==
    [s EXCEPT !.contentCreationMode = enabled]

\* `this.contentCreationMode && this.terrainAvoidance`
ContentMode(s) == s.contentCreationMode /\ s.terrainAvoidance

----------------------------------------------------------------------------
(* Linear flight *)

FreeRuns(s) == {r \in RunIds : s.runs[r].n = 0}

\* the `cancel` callback of a leg: isFlying = false, then resolve(). The
\* continuation of the await is a microtask and runs once the stack that
\* called the callback has ended.
legCancel(s, r) ==
    [s EXCEPT !.isFlying = FALSE, !.currentFlight = 0,
              !.microtasks = Append(@, r)]

\* the `complete` callback of a leg: resolve(), and no field changes
legComplete(s, r) ==
    [s EXCEPT !.currentFlight = 0, !.microtasks = Append(@, r)]

\* camera.flyTo of flyToPointWithAvoidance: the camera cancels the flight in
\* progress, whose cancel callback runs here, and flies the leg of run r
flyToPointWithAvoidance(s, r) ==
    LET s1 == IF s.currentFlight # 0
              THEN Emit(legCancel(s, s.currentFlight),
                        "cancel(previous flight)")
              ELSE s
    IN  Emit([s1 EXCEPT !.currentFlight = r], "flyTo")

\* a finally block that clears isFlying but leaves the input locked
flyPathFinally_KeepsInputLocked(s, r) ==
    Emit([s EXCEPT !.isFlying = FALSE, !.runs[r] = NoRun], "flyPath:return")

\* the finally block of flyPath, and its return
flyPathFinally(s, r) ==
    LET s1 == setInputLocked([s EXCEPT !.isFlying = FALSE], FALSE)
    IN  Emit([s1 EXCEPT !.runs[r] = NoRun], "flyPath:return")

\* the for loop of flyPath, from the await of leg runs[r].idx onwards
flyPathResume(s, r) ==
    IF s.runs[r].idx < s.runs[r].n
    THEN flyToPointWithAvoidance([s EXCEPT !.runs[r].idx = @ + 1], r)
    ELSE flyPathFinally(s, r)

\* flyPath whose guard forgets `this.isFlying`
flyPath_IgnoresIsFlying(s, n, r) ==
    IF n = 0 THEN s
    ELSE
        LET s1 == setInputLocked([Observe(s) EXCEPT !.isFlying = TRUE], TRUE)
        IN  flyToPointWithAvoidance(
                [s1 EXCEPT !.runs[r] = [n |-> n, idx |-> 1]], r)

\* flyPath whose loop does not await its legs
flyPath_NoAwait(s, n, r) ==
    IF s.isFlying \/ n = 0 THEN s
    ELSE
        LET s1 == setInputLocked([Observe(s) EXCEPT !.isFlying = TRUE], TRUE)
            s2 == flyToPointWithAvoidance(
                      [s1 EXCEPT !.runs[r] = [n |-> n, idx |-> n]], r)
        IN  IF n > 1 THEN flyToPointWithAvoidance(s2, r) ELSE s2

\* flyPath up to its first await, for n waypoints
flyPath(s, n, r) ==
    IF s.isFlying \/ n = 0 THEN s
    ELSE
        LET s1 == setInputLocked([Observe(s) EXCEPT !.isFlying = TRUE], TRUE)
        IN  flyToPointWithAvoidance(
                [s1 EXCEPT !.runs[r] = [n |-> n, idx |-> 1]], r)

\* the continuation of `await this.flyToPointWithAvoidance(...)` of the
\* leg whose callback resolved first: one microtask. A leg that it issues
\* cancels the flight in progress, whose continuation joins the queue.
awaitContinuation(s) ==
    flyPathResume([s EXCEPT !.microtasks = Tail(@)], Head(s.microtasks))

----------------------------------------------------------------------------
(* TerrainAvoidanceSystem *)

(* The points lie on one meridian; a point is its latitude in metres      *)
(* north of a reference (latitude in degrees times 111320), so a heading  *)
(* is 0 (north) or 180 (south). Heights and altitudes are whole metres    *)
(* and multiples of 4, for which the weights 0.25 and 0.5 are exact.      *)

MINIMUM_SAFE_HEIGHT == 50
LOOKAHEAD_DISTANCE == 200
SAFETY_BUFFER == 30
MIN_SPEED == 20
MAX_SPEED == 150
DEFAULT_SPEED == 60
\* samplePoints of calculateSafeAltitudeWithLookahead
SamplePoints == 5

Max(a, b) == IF a >= b THEN a ELSE b
Min(a, b) == IF a <= b THEN a ELSE b

\* The globe: height `base`, a ridge of height `peak` over [peakFrom, peakTo]
\* and no loaded tile over [holeFrom, holeTo]
Ridges == {<<1, 0>>, <<66, 114>>, <<170, 230>>}
Holes == {<<1, 0>>, <<-10, 10>>}
Terrains ==
    {[base |-> b, peak |-> h, peakFrom |-> r[1], peakTo |-> r[2],
      holeFrom |-> u[1], holeTo |-> u[2]] :
        b \in {-20, 0, 40}, h \in {120, 300}, r \in Ridges, u \in Holes}

Points == {0, 180, 360}
Headings == {0, 180}
Altitudes == {40, 200, 400}
ExtraMargins == {0, 20}
LookaheadSpeeds == {0, 20, 60, 100}
ClampInputs == {-10, 0, 5, 19, 20, 21, 60, 149, 150, 151, 300}

\* the paths of at most n waypoints
RECURSIVE PathsUpTo(_)
PathsUpTo(n) ==
    IF n = 0 THEN {<< >>}
    ELSE LET shorter == PathsUpTo(n - 1)
         IN  shorter \cup {Append(w, p) : w \in {v \in shorter : Len(v) = n - 1},
                                          p \in Points}

\* viewer.scene.globe.getHeight at a position that is `lo` = `hi`, or that
\* lies strictly between the whole metres `lo` and `hi` = `lo` + 1: the
\* height, or undefined without a tile. The edges of a ridge and of a hole
\* are whole metres.
globeGetHeightWithin(t, lo, hi) ==
    IF t.holeFrom <= lo /\ hi <= t.holeTo
    THEN [defined |-> FALSE, value |-> 0]
    ELSE IF t.peakFrom <= lo /\ hi <= t.peakTo
         THEN [defined |-> TRUE, value |-> t.peak]
         ELSE [defined |-> TRUE, value |-> t.base]

\* viewer.scene.globe.getHeight at a whole metre
globeGetHeight(t, pos) == globeGetHeightWithin(t, pos, pos)

\* getTerrainHeight handing on a no-data value where no tile is loaded
getTerrainHeight_NoDataValue(t, pos) ==
    LET height == globeGetHeight(t, pos)
    IN  IF height.defined THEN height.value ELSE -9999

\* height || 0
getTerrainHeight(t, pos) ==
    LET height == globeGetHeight(t, pos)
    IN  IF height.defined /\ height.value # 0 THEN height.value ELSE 0

\* height || 0, at a position between two whole metres
getTerrainHeightWithin(t, lo, hi) ==
    LET height == globeGetHeightWithin(t, lo, hi)
    IN  IF height.defined /\ height.value # 0 THEN height.value ELSE 0

\* calculateSafeAltitude without the SAFETY_BUFFER
calculateSafeAltitude_NoBuffer(t, pos, desiredAltitude, extraMargin) ==
    LET terrainHeight == getTerrainHeight(t, pos)
        minimumAlt == terrainHeight + MINIMUM_SAFE_HEIGHT + extraMargin
    IN  Max(desiredAltitude, minimumAlt)

calculateSafeAltitude(t, pos, desiredAltitude, extraMargin) ==
    LET terrainHeight == getTerrainHeight(t, pos)
        minimumAlt == terrainHeight + MINIMUM_SAFE_HEIGHT + SAFETY_BUFFER
                          + extraMargin
    IN  Max(desiredAltitude, minimumAlt)

\* metres northwards per metre flown on heading 0 or 180: Math.cos(headingRad)
Cos(headingDegrees) == IF headingDegrees = 0 THEN 1 ELSE -1

\* the loop over the sample points i..last, carrying maxTerrainHeight
RECURSIVE SampleAhead(_, _, _, _, _, _, _)
SampleAhead(t, pos, headingDegrees, lookahead, i, last, maxTerrainHeight) ==
    IF i > last THEN maxTerrainHeight
    ELSE
        LET distance == (lookahead \div SamplePoints) * i
            samplePos == pos + distance * Cos(headingDegrees)
            terrainHeight == getTerrainHeight(t, samplePos)
        IN  SampleAhead(t, pos, headingDegrees, lookahead, i + 1, last,
                        Max(maxTerrainHeight, terrainHeight))

\* the lookahead whose loop stops one sample short
calculateSafeAltitudeWithLookahead_FourSamples(t, pos, headingDegrees, desiredAltitude, speed) ==
    LET lookahead == Min(LOOKAHEAD_DISTANCE, speed * 3)
        maxTerrainHeight ==
            SampleAhead(t, pos, headingDegrees, lookahead, 1,
                        SamplePoints - 1, getTerrainHeight(t, pos))
        minimumAlt == maxTerrainHeight + MINIMUM_SAFE_HEIGHT + SAFETY_BUFFER
    IN  Max(desiredAltitude, minimumAlt)

calculateSafeAltitudeWithLookahead(t, pos, headingDegrees, desiredAltitude, speed) ==
    LET lookahead == Min(LOOKAHEAD_DISTANCE, speed * 3)
        maxTerrainHeight ==
            SampleAhead(t, pos, headingDegrees, lookahead, 1, SamplePoints,
                        getTerrainHeight(t, pos))
        minimumAlt == maxTerrainHeight + MINIMUM_SAFE_HEIGHT + SAFETY_BUFFER
    IN  Max(desiredAltitude, minimumAlt)

\* atan2(y, x) in degrees for two points of one meridian: y = 0 and x has
\* the sign of lat2 - lat1
calculateHeading(lat1, lat2) == IF lat2 >= lat1 THEN 0 ELSE 180

\* the loop of adjustPathForTerrainAvoidance asking for the safe altitude
\* with a desired altitude of 0 instead of baseAltitude
safePath_NoBaseAltitude(t, waypoints, baseAltitude) ==
    [i \in 1..Len(waypoints) |->
        LET wp == waypoints[i]
            heading ==
                IF i < Len(waypoints)
                THEN calculateHeading(wp, waypoints[i + 1])
                ELSE IF i > 1 THEN calculateHeading(waypoints[i - 1], wp)
                     ELSE 0
        IN  [lat |-> wp,
             altitude |-> calculateSafeAltitudeWithLookahead(
                              t, wp, heading, 0, DEFAULT_SPEED)]]

\* the loop of adjustPathForTerrainAvoidance: the path before smoothing
safePath(t, waypoints, baseAltitude) ==
    [i \in 1..Len(waypoints) |->
        LET wp == waypoints[i]
            heading ==
                IF i < Len(waypoints)
                THEN calculateHeading(wp, waypoints[i + 1])
                ELSE IF i > 1 THEN calculateHeading(waypoints[i - 1], wp)
                     ELSE 0
        IN  [lat |-> wp,
             altitude |-> calculateSafeAltitudeWithLookahead(
                              t, wp, heading, baseAltitude, DEFAULT_SPEED)]]

\* the smoothing without its final Math.max against the terrain
smoothAltitudeTransitions_NoReclamp(t, path) ==
    IF Len(path) < 3 THEN path
    ELSE [i \in 1..Len(path) |->
            IF i = 1 \/ i = Len(path) THEN path[i]
            ELSE [path[i] EXCEPT !.altitude =
                     path[i - 1].altitude \div 4 + path[i].altitude \div 2
                         + path[i + 1].altitude \div 4]]

\* the smoothing with the weight 0.25 on the current point too
smoothAltitudeTransitions_EqualWeights(t, path) ==
    IF Len(path) < 3 THEN path
    ELSE [i \in 1..Len(path) |->
            IF i = 1 \/ i = Len(path) THEN path[i]
            ELSE
                LET altitude == path[i - 1].altitude \div 4
                                    + path[i].altitude \div 4
                                    + path[i + 1].altitude \div 4
                    minAlt == getTerrainHeight(t, path[i].lat)
                                  + MINIMUM_SAFE_HEIGHT + SAFETY_BUFFER
                IN  [path[i] EXCEPT !.altitude = Max(altitude, minAlt)]]

\* the smoothing reading the neighbour it has just smoothed
smoothAltitudeTransitions_InPlace(t, path) ==
    IF Len(path) < 3 THEN path
    ELSE
        LET smoothed[i \in 1..Len(path)] ==
                IF i = 1 \/ i = Len(path) THEN path[i].altitude
                ELSE Max(smoothed[i - 1] \div 4 + path[i].altitude \div 2
                             + path[i + 1].altitude \div 4,
                         getTerrainHeight(t, path[i].lat)
                             + MINIMUM_SAFE_HEIGHT + SAFETY_BUFFER)
        IN  [i \in 1..Len(path) |->
                [path[i] EXCEPT !.altitude = smoothed[i]]]

\* every interior point is averaged over the altitudes of the path as given
smoothAltitudeTransitions(t, path) ==
    IF Len(path) < 3 THEN path
    ELSE [i \in 1..Len(path) |->
            IF i = 1 \/ i = Len(path) THEN path[i]
            ELSE
                LET prevAlt == path[i - 1].altitude
                    currAlt == path[i].altitude
                    nextAlt == path[i + 1].altitude
                    altitude == prevAlt \div 4 + currAlt \div 2
                                    + nextAlt \div 4
                    terrainHeight == getTerrainHeight(t, path[i].lat)
                    minAlt == terrainHeight + MINIMUM_SAFE_HEIGHT
                                  + SAFETY_BUFFER
                IN  [path[i] EXCEPT !.altitude = Max(altitude, minAlt)]]

adjustPathForTerrainAvoidance(t, waypoints, baseAltitude) ==
    smoothAltitudeTransitions(t, safePath(t, waypoints, baseAltitude))

\* clampSpeed without the upper limit
clampSpeed_NoUpperLimit(speed) == Max(MIN_SPEED, speed)

clampSpeed(speed) == Max(MIN_SPEED, Min(MAX_SPEED, speed))

----------------------------------------------------------------------------
(* TerrainAvoidanceSystem: the speed *)

SLOW_SPEED == 30
FAST_SPEED == 100
\* lookahead and samplePoints of calculateDynamicSpeed
SpeedLookahead == 500
SpeedSamples == 10
\* the thresholds of avgVariation
RoughVariation == 50
ModerateVariation == 20

\* terrain ahead of the camera: the terrains above and ridges whose rise
\* puts the average variation on either side of a threshold
SpeedTerrains ==
    Terrains \cup
    {[base |-> 0, peak |-> h, peakFrom |-> 66, peakTo |-> 114,
      holeFrom |-> 1, holeTo |-> 0] : h \in {100, 101, 250, 251}}
CameraAltitudes == {40, 99, 100, 200, 299, 300, 400}

getRecommendedSpeed(altitude) ==
    IF altitude < 100 THEN SLOW_SPEED
    ELSE IF altitude < 300 THEN DEFAULT_SPEED
    ELSE FAST_SPEED

\* the loop over the samples i..10, carrying altitudeVariation and
\* prevHeight
RECURSIVE VariationAhead(_, _, _, _, _, _)
VariationAhead(t, pos, heading, i, altitudeVariation, prevHeight) ==
    IF i > SpeedSamples THEN altitudeVariation
    ELSE
        LET distance == (SpeedLookahead \div SpeedSamples) * i
            sampleHeight == getTerrainHeight(t, pos + distance * Cos(heading))
        IN  VariationAhead(t, pos, heading, i + 1,
                           altitudeVariation + Abs(sampleHeight - prevHeight),
                           sampleHeight)

\* calculateDynamicSpeed slowing down at the thresholds already
calculateDynamicSpeed_AtThreshold(t, pos, heading, currentAltitude) ==
    LET altitudeVariation ==
            VariationAhead(t, pos, heading, 1, 0, getTerrainHeight(t, pos))
    IN  IF altitudeVariation >= RoughVariation * SpeedSamples
        THEN SLOW_SPEED
        ELSE IF altitudeVariation >= ModerateVariation * SpeedSamples
             THEN DEFAULT_SPEED
             ELSE Min(FAST_SPEED, getRecommendedSpeed(currentAltitude))

\* avgVariation > 50 is decided as altitudeVariation > 50 * samplePoints
calculateDynamicSpeed(t, pos, heading, currentAltitude) ==
    LET altitudeVariation ==
            VariationAhead(t, pos, heading, 1, 0, getTerrainHeight(t, pos))
    IN  IF altitudeVariation > RoughVariation * SpeedSamples
        THEN SLOW_SPEED
        ELSE IF altitudeVariation > ModerateVariation * SpeedSamples
             THEN DEFAULT_SPEED
             ELSE Min(FAST_SPEED, getRecommendedSpeed(currentAltitude))

----------------------------------------------------------------------------
(* TerrainAvoidanceSystem: the automatic altitude *)

(* The ridges run east-west, so the height of a sample depends on its     *)
(* latitude only: of a sample on the circle only the northward offset     *)
(* radius * cos(angle) matters. The offset is a real number and is held   *)
(* as the two whole metres that enclose it, which decide the height of    *)
(* the sample. An altitude recommended by                                 *)
(* calculateAutoAltitude is a multiple of 1/170 m (the average is over 17 *)
(* samples, the weights are 0.5 and 0.3) and is held in that unit; a      *)
(* confidence is held in hundredths.                                      *)

\* samplePoints of calculateAutoAltitude
RingPoints == 16
\* Math.cos((i / 16) * Math.PI * 2), i = 0..15, in millionths: the
\* millionth below and the millionth above. The cosine of a quarter turn,
\* 6e-17, moves no sample: it is lost in the sum with the latitude.
RingCos ==
    LET c0 == [lo |-> 1000000, hi |-> 1000000]
        c1 == [lo |-> 923879, hi |-> 923880]
        c2 == [lo |-> 707106, hi |-> 707107]
        c3 == [lo |-> 382683, hi |-> 382684]
        c4 == [lo |-> 0, hi |-> 0]
        neg(c) == [lo |-> -c.hi, hi |-> -c.lo]
    IN  <<c0, c1, c2, c3, c4, neg(c3), neg(c2), neg(c1),
          neg(c0), neg(c1), neg(c2), neg(c3), c4, c3, c2, c1>>
\* units of a recommended altitude per metre
AltUnit == 170
\* lower and upper end of the range the recommendation is clamped to
AutoFloor == 80
AutoCeiling == 1500

\* terrain handed to calculateAutoAltitude: a ridge of `rise` metres over
\* the base
AutoTerrains ==
    {[base |-> b, peak |-> b + rise, peakFrom |-> r[1], peakTo |-> r[2],
      holeFrom |-> u[1], holeTo |-> u[2]] :
        b \in {-40, 0, 4, 5, 60, 1400},
        rise \in {16, 20, 96, 100, 400, 500, 800},
        r \in {<<1, 0>>, <<150, 400>>}, u \in Holes}
Radii == {500, 1000}

\* sampleRadius * Math.cos(angle) of the i-th sample of the circle, the
\* metres northwards: the whole metre below and the whole metre above
RingNorth(radius, i) ==
    LET c == RingCos[i + 1]
    IN  [lo |-> (radius * c.lo) \div 1000000,
         hi |-> -((-(radius * c.hi)) \div 1000000)]

\* terrainHeights: the centre followed by the 16 samples of the circle
sampleTerrain(t, pos, radius) ==
    <<getTerrainHeight(t, pos)>> \o
    [k \in 1..RingPoints |->
        LET north == RingNorth(radius, k - 1)
        IN  getTerrainHeightWithin(t, pos + north.lo, pos + north.hi)]

RECURSIVE SeqMin(_)
SeqMin(q) == IF Len(q) = 1 THEN q[1] ELSE Min(q[1], SeqMin(Tail(q)))
RECURSIVE SeqMax(_)
SeqMax(q) == IF Len(q) = 1 THEN q[1] ELSE Max(q[1], SeqMax(Tail(q)))
RECURSIVE SeqSum(_)
SeqSum(q) == IF q = << >> THEN 0 ELSE q[1] + SeqSum(Tail(q))

\* the scene type; avgHeight < 50 is decided on the sum of the heights
sceneTypeOf(terrainHeights) ==
    LET minHeight == SeqMin(terrainHeights)
        maxHeight == SeqMax(terrainHeights)
        terrainVariation == maxHeight - minHeight
    IN  IF minHeight < 5 /\ SeqSum(terrainHeights) < 50 * Len(terrainHeights)
        THEN "coastal"
        ELSE IF terrainVariation < 20 THEN "flat"
        ELSE IF terrainVariation < 100 THEN "hilly"
        ELSE IF terrainVariation < 500 THEN "urban"
        ELSE "mountainous"

\* the switch over the scene type: the altitude in units of 1/170 m,
\* where avgHeight * 170 is 10 times the sum of the 17 heights
altitudeFor(sceneType, terrainHeights) ==
    LET maxHeight == SeqMax(terrainHeights)
        terrainVariation == maxHeight - SeqMin(terrainHeights)
        avgUnits == SeqSum(terrainHeights) * (AltUnit \div Len(terrainHeights))
    IN  CASE sceneType = "flat" ->
                Max(100 * AltUnit, avgUnits + 150 * AltUnit)
          [] sceneType = "hilly" ->
                (maxHeight + 100) * AltUnit + terrainVariation * 85
          [] sceneType = "urban" ->
                (maxHeight + Min(terrainVariation, 200) + 100) * AltUnit
          [] sceneType = "mountainous" ->
                (maxHeight + 200) * AltUnit + terrainVariation * 51
          [] sceneType = "coastal" ->
                Max(80 * AltUnit, avgUnits + 100 * AltUnit)

\* the confidence of a scene type, in hundredths
confidenceFor(sceneType) ==
    CASE sceneType = "flat" -> 90
      [] sceneType = "hilly" -> 85
      [] sceneType = "urban" -> 70
      [] sceneType = "mountainous" -> 80
      [] sceneType = "coastal" -> 85

\* calculateAutoAltitude without the final clamp
calculateAutoAltitude_NoClamp(t, pos, radius) ==
    LET terrainHeights == sampleTerrain(t, pos, radius)
        sceneType == sceneTypeOf(terrainHeights)
    IN  [recommendedAltitude |-> altitudeFor(sceneType, terrainHeights),
         terrainHeight |-> terrainHeights[1],
         sceneType |-> sceneType,
         confidence |-> confidenceFor(sceneType)]

calculateAutoAltitude(t, pos, radius) ==
    LET terrainHeights == sampleTerrain(t, pos, radius)
        sceneType == sceneTypeOf(terrainHeights)
        recommendedAltitude == altitudeFor(sceneType, terrainHeights)
    IN  [recommendedAltitude |->
             Max(AutoFloor * AltUnit,
                 Min(AutoCeiling * AltUnit, recommendedAltitude)),
         terrainHeight |-> terrainHeights[1],
         sceneType |-> sceneType,
         confidence |-> confidenceFor(sceneType)]

\* the loop of calculateAutoAltitudeForPath: the recommended altitudes of
\* the waypoints, each for a circle of 500 m
PathRadius == 500
recommendedAlong(t, waypoints) ==
    [i \in 1..Len(waypoints) |->
        calculateAutoAltitude(t, waypoints[i], PathRadius).recommendedAltitude]

\* Math.round of the fraction num / den, den > 0: halves round upwards
Round(num, den) == (2 * num + den) \div (2 * den)

\* calculateAutoAltitudeForPath returning the plain average
calculateAutoAltitudeForPath_PlainAverage(t, waypoints) ==
    IF Len(waypoints) = 0 THEN 200
    ELSE
        LET recommended == recommendedAlong(t, waypoints)
        IN  Round(SeqSum(recommended), AltUnit * Len(waypoints))

\* avgRecommended * 0.4 + maxRecommended * 0.6 is the fraction
\* (2 * total + 3 * n * max) / (5 * n), in units of 1/170 m
calculateAutoAltitudeForPath(t, waypoints) ==
    IF Len(waypoints) = 0 THEN 200
    ELSE
        LET recommended == recommendedAlong(t, waypoints)
            n == Len(waypoints)
            maxRecommended == Max(0, SeqMax(recommended))
            totalRecommended == SeqSum(recommended)
        IN  Round(2 * totalRecommended + 3 * n * maxRecommended,
                  5 * n * AltUnit)

\* terrain handed to calculateAutoAltitudeForPath: the ridge is in reach of
\* some waypoints and out of reach of others
\* ALTITUDE_PRESETS: min and max of each preset
ALTITUDE_PRESETS ==
    [auto          |-> [min |-> 100, max |-> 500],
     drone_closeup |-> [min |-> 30,  max |-> 100],
     cinematic     |-> [min |-> 100, max |-> 300],
     aerial        |-> [min |-> 300, max |-> 800],
     satellite     |-> [min |-> 800, max |-> 2000]]

Presets == {"auto", "drone_closeup", "cinematic", "aerial", "satellite"}
\* the radius of calculateAutoAltitude when none is given
DefaultRadius == 1000

\* getPresetAltitude, in units of 1/170 m like recommendedAltitude
getPresetAltitude(t, preset, pos) ==
    LET terrainHeight == getTerrainHeight(t, pos)
        presetConfig == ALTITUDE_PRESETS[preset]
    IN  IF preset = "auto"
        THEN calculateAutoAltitude(t, pos, DefaultRadius).recommendedAltitude
        ELSE terrainHeight * AltUnit
                 + ((presetConfig.min + presetConfig.max) * AltUnit) \div 2

\* getAltitudePresets: the presets with their altitudes, rounded to metres
getAltitudePresets(t, pos) ==
    LET terrainHeight == getTerrainHeight(t, pos)
        autoResult == calculateAutoAltitude(t, pos, DefaultRadius)
    IN  <<[preset |-> "auto",
           altitude |-> Round(autoResult.recommendedAltitude, AltUnit)],
          [preset |-> "drone_closeup",
           altitude |-> Round(terrainHeight + 60, 1)],
          [preset |-> "cinematic",
           altitude |-> Round(terrainHeight + 200, 1)],
          [preset |-> "aerial",
           altitude |-> Round(terrainHeight + 500, 1)],
          [preset |-> "satellite",
           altitude |-> Round(terrainHeight + 1200, 1)]>>

PathTerrains ==
    {t \in AutoTerrains : t.peakFrom <= t.peakTo /\ t.holeFrom > t.holeTo}

----------------------------------------------------------------------------
(* AutopilotManager: one leg of a flight *)

(* A position of the camera is a point of the meridian and an altitude.   *)
(* A distance and a duration are real numbers, in general irrational:     *)
(* each is held exactly, as the root of a whole number over a whole       *)
(* number, sqrt(squared) / per with per > 0.                               *)

\* the shortest animation of a leg, in seconds
MinLegSeconds == 3

\* the number sqrt(squared) / per
Root(squared, per) == [squared |-> squared, per |-> per]
\* the whole number k >= 0
Whole(k) == Root(k * k, 1)
\* a >= b
AtLeast(a, b) == a.squared * b.per * b.per >= b.squared * a.per * a.per
\* a / k for a whole k > 0
Over(a, k) == [a EXCEPT !.per = @ * k]

\* Cesium.Cartesian3.distance
distance(p, q) ==
    Root((p.lat - q.lat) * (p.lat - q.lat)
             + (p.altitude - q.altitude) * (p.altitude - q.altitude), 1)

\* the duration of a leg without the minimum of 3 seconds
legDuration_NoMinimum(currentPos, destination, speed) ==
    Over(distance(currentPos, destination), speed)

\* Math.max(3, distance / speed)
legDuration(currentPos, destination, speed) ==
    LET quotient == Over(distance(currentPos, destination), speed)
    IN  IF AtLeast(Whole(MinLegSeconds), quotient)
        THEN Whole(MinLegSeconds)
        ELSE quotient

\* flyToPointWithAvoidance up to camera.flyTo: the options handed to it
flyToOptions(t, content, currentPos, destination, speed) ==
    LET duration == legDuration(currentPos, destination, speed)
        safeAlt == calculateSafeAltitude(t, destination.lat,
                                         destination.altitude, 0)
        adjusted == IF content /\ safeAlt > destination.altitude
                    THEN [destination EXCEPT !.altitude = safeAlt]
                    ELSE destination
    IN  [destination |-> adjusted, duration |-> duration]

\* the path of flyPath without terrain avoidance:
\* (globe.getHeight(wp) || 0) + baseAltitude
simplePath(t, waypoints, baseAltitude) ==
    [i \in 1..Len(waypoints) |->
        LET height == globeGetHeight(t, waypoints[i])
            terrainHeight == IF height.defined THEN height.value ELSE 0
        IN  [lat |-> waypoints[i], altitude |-> terrainHeight + baseAltitude]]

\* flyPath from its guard to its loop, with a speed that is not clamped
flyPathPlan_NoClamp(t, content, waypoints, speedOption, altitudeOption) ==
    LET speed == IF speedOption # 0 THEN speedOption ELSE DEFAULT_SPEED
        baseAltitude == IF altitudeOption # 0 THEN altitudeOption ELSE 200
    IN  [speed |-> speed,
         adjustedWaypoints |->
             IF content
             THEN adjustPathForTerrainAvoidance(t, waypoints, baseAltitude)
             ELSE simplePath(t, waypoints, baseAltitude),
         content |-> content]

\* flyPath from its guard to its loop: the locals `speed` and
\* `adjustedWaypoints`; `content` is what
\* `this.contentCreationMode && this.terrainAvoidance` gave
flyPathPlan(t, content, waypoints, speedOption, altitudeOption) ==
    LET given == IF speedOption # 0 THEN speedOption ELSE DEFAULT_SPEED
        speed == IF content THEN clampSpeed(given) ELSE given
        baseAltitude == IF altitudeOption # 0 THEN altitudeOption ELSE 200
    IN  [speed |-> speed,
         adjustedWaypoints |->
             IF content
             THEN adjustPathForTerrainAvoidance(t, waypoints, baseAltitude)
             ELSE simplePath(t, waypoints, baseAltitude),
         content |-> content]

\* one pass of the loop of flyPath, for the index-th point: the speed of
\* the leg and what flyToPointWithAvoidance hands to camera.flyTo, together
\* with the camera position and the mode at that moment; `content` is
\* read again in every pass
flyPathLeg(t, content, index, point, speed, camera, heading) ==
    LET pointSpeed ==
            IF content
            THEN calculateDynamicSpeed(t, camera.lat, heading,
                                       camera.altitude)
            ELSE speed
        options == flyToOptions(t, content, camera, point, pointSpeed)
    IN  [index |-> index, speed |-> pointSpeed, from |-> camera,
         requested |-> point, destination |-> options.destination,
         duration |-> options.duration, content |-> content]

NoPosition == [lat |-> 0, altitude |-> 0]

\* no flyPath call yet, and no leg
NoFlight == [speed |-> 0, adjustedWaypoints |-> << >>, content |-> FALSE]
NoLeg ==
    [index |-> 0, speed |-> 0, from |-> NoPosition, requested |-> NoPosition,
     destination |-> NoPosition, duration |-> Whole(0), content |-> FALSE]

NoAuto ==
    [recommendedAltitude |-> 0, terrainHeight |-> 0, sceneType |-> "none",
     confidence |-> 0]

\* no call of the planner yet
NoCall ==
    [op |-> "none", terrain |-> CHOOSE t \in Terrains : TRUE, pos |-> 0,
     heading |-> 0, desired |-> 0, extraMargin |-> 0, speed |-> 0,
     waypoints |-> << >>, radius |-> 0, done |-> FALSE, result |-> 0,
     path |-> << >>, auto |-> NoAuto,
     camera |-> NoPosition, flight |-> NoFlight, leg |-> NoLeg,
     preset |-> "auto", listed |-> << >>]

----------------------------------------------------------------------------
(* The state machine *)

AutopilotInit ==
    /\ contentCreationMode = TRUE
    /\ terrainAvoidance = FALSE
    /\ isFlying = FALSE
    /\ isOrbiting = FALSE
    /\ isLocked = FALSE
    /\ inputLocked = FALSE
    /\ orbitListener = 0
    /\ lockListener = 0
    /\ onTick = << >>
    /\ cameraFrame = "IDENTITY"
    /\ runs = [r \in RunIds |-> NoRun]
    /\ currentFlight = 0
    /\ microtasks = << >>
    /\ onCompleteCalls = 0
    /\ effects = << >>
    /\ lastOp = "constructor"
    /\ guideLineEntity = FALSE

Init ==
    /\ AutopilotInit
    /\ planner = NoCall

\* flyPath for a list of n waypoints. The safety features decide where
\* and how fast a leg flies, never whether it is issued: the legs with
\* their data, and the switching of the features, are in FlightSpec.
FlyPath ==
    \E n \in WaypointCounts :
        /\ (isFlying \/ n = 0) \/ FreeRuns(cur) # {}
        /\ LET r == IF FreeRuns(cur) = {} THEN 1
                    ELSE CHOOSE f \in FreeRuns(cur) :
                             \A g \in FreeRuns(cur) : f <= g
           IN  Becomes(flyPath(Begin("flyPath"), n, r))

\* the runs whose leg has ended and whose continuation is still queued
Queued == {microtasks[i] : i \in 1..Len(microtasks)}

\* the complete callback of the flight in progress is called from the
\* render loop, which runs once the queued continuations have run
LegComplete(r) ==
    /\ currentFlight = r
    /\ microtasks = << >>
    /\ Becomes(legComplete(Begin("legComplete"), r))

\* the cancel callback of the flight in progress is called in the stack of
\* whoever cancels the flight
LegCancel(r) ==
    /\ currentFlight = r
    /\ Becomes(legCancel(Begin("legCancel"), r))

\* the oldest queued continuation runs once the stack has ended; a call
\* made by another microtask may come between two continuations
AwaitContinuation ==
    /\ microtasks # << >>
    /\ Becomes(awaitContinuation(Begin("awaitContinuation")))

StartOrbit ==
    \E speed \in OrbitSpeeds, hasOnComplete \in BOOLEAN :
        /\ Becomes(startOrbit(Begin("startOrbit"), speed, hasOnComplete))

StartSlowOrbit ==
    \E speed \in SlowOrbitSpeeds, hasOnComplete \in BOOLEAN :
        /\ Becomes(startOrbit(Begin("startOrbit"), speed, hasOnComplete))

StopOrbit ==
    /\ Becomes(stopOrbit(BeginStop("stopOrbit")))

FlyPathWithTargetLock ==
    \E path \in LockPaths, speed \in LockSpeeds, duration \in LockDurations :
        /\ Becomes(flyPathWithTargetLock(Begin("flyPathWithTargetLock"),
                                         path, speed, duration))

StopLock ==
    /\ Becomes(stopLock(BeginStop("stopLock")))

Tick ==
    \E dt \in TickSeconds :
        /\ microtasks = << >>
        /\ Becomes(clockTick(Begin("tick"), dt))

Next ==
    \/ FlyPath
    \/ \E r \in RunIds : LegComplete(r)
    \/ \E r \in RunIds : LegCancel(r)
    \/ AwaitContinuation
    \/ StartOrbit
    \/ StopOrbit
    \/ FlyPathWithTargetLock
    \/ StopLock
    \/ Tick

Spec == Init /\ [][Next]_vars

\* the same machine with orbits of 10 degrees per tick
SlowOrbitNext ==
    \/ FlyPath
    \/ \E r \in RunIds : LegComplete(r)
    \/ \E r \in RunIds : LegCancel(r)
    \/ AwaitContinuation
    \/ StartSlowOrbit
    \/ StopOrbit
    \/ FlyPathWithTargetLock
    \/ StopLock
    \/ Tick

SlowOrbitSpec == Init /\ [][SlowOrbitNext]_vars

\* Progress of the Linear runs. The runs are untouched by the parameters of
\* a lock, so one lock request stands for all; an orbit neither reads nor
\* writes isFlying or a run, and is left out.
StartFastOrbit ==
    /\ Becomes(startOrbit(Begin("startOrbit"), -250, TRUE))

StartShortLock ==
    /\ Becomes(flyPathWithTargetLock(Begin("flyPathWithTargetLock"),
                                     <<0, 120>>, 60, 0))

LiveNext ==
    \/ FlyPath
    \/ \E r \in RunIds : LegComplete(r)
    \/ \E r \in RunIds : LegCancel(r)
    \/ AwaitContinuation
    \/ StartShortLock
    \/ StopLock
    \/ Tick

\* the flight in progress eventually fires its complete or its cancel
\* callback, unless a new leg cancels it first; the queued continuations
\* run
LiveSpec ==
    /\ Init /\ [][LiveNext]_vars
    /\ \A r \in RunIds : WF_vars(LegComplete(r) \/ LegCancel(r))
    /\ WF_vars(AwaitContinuation)

\* a tick on which clock.currentTime has advanced by dt seconds
TickBy(dt) ==
    /\ microtasks = << >>
    /\ Becomes(clockTick(Begin("tick"), dt))

AdvancingTick == \E dt \in TickSeconds \ {0} : TickBy(dt)

\* a flight to a single waypoint, requested while no run is suspended
FlySingle ==
    /\ \A r \in RunIds : runs[r].n = 0
    /\ Becomes(flyPath(Begin("flyPath"), 1, 1))

\* The Lock runs with every lock request, under a clock that keeps ticking
\* and advancing: a tick waits for the stack of a handler and its queued
\* continuations to end, which they do before the next frame, so the tick
\* is taken if it is possible again and again.
LockNext ==
    \/ FlySingle
    \/ \E r \in RunIds : LegComplete(r)
    \/ \E r \in RunIds : LegCancel(r)
    \/ AwaitContinuation
    \/ StartFastOrbit
    \/ StopOrbit
    \/ FlyPathWithTargetLock
    \/ StopLock
    \/ Tick

LockSpec ==
    /\ Init /\ [][LockNext]_vars
    /\ SF_vars(AdvancingTick)
    /\ WF_vars(AwaitContinuation)

ShowGuideLine ==
    /\ Becomes(showGuideLine(Begin("showGuideLine")))

HideGuideLine ==
    /\ Becomes(hideGuideLine(Begin("hideGuideLine")))

\* the machine together with the guide line of the director panel
GuideNext ==
    \/ LiveNext
    \/ StartFastOrbit
    \/ StopOrbit
    \/ ShowGuideLine
    \/ HideGuideLine

GuideSpec == Init /\ [][GuideNext]_vars

\* The functions of TerrainAvoidanceSystem, each applied to one input of
\* the sets above; the autopilot is left as constructed.
autopilot == <<contentCreationMode, terrainAvoidance, isFlying, isOrbiting,
               isLocked, inputLocked, orbitListener, lockListener, onTick,
               cameraFrame, runs, currentFlight, microtasks,
               onCompleteCalls, effects, lastOp, guideLineEntity>>

\* the calls to be made, a function together with its arguments, are drawn
\* when the planner is constructed
PlannerInit ==
    /\ AutopilotInit
    /\ planner \in
           {[NoCall EXCEPT !.op = "calculateSafeAltitude", !.terrain = t,
                           !.pos = pos, !.desired = desired,
                           !.extraMargin = extraMargin] :
               t \in Terrains, pos \in Points, desired \in Altitudes,
               extraMargin \in ExtraMargins}
           \cup
           {[NoCall EXCEPT !.op = "calculateSafeAltitudeWithLookahead",
                           !.terrain = t, !.pos = pos, !.heading = heading,
                           !.desired = desired, !.speed = speed] :
               t \in Terrains, pos \in Points, heading \in Headings,
               desired \in Altitudes, speed \in LookaheadSpeeds}
           \cup
           {[NoCall EXCEPT !.op = "adjustPathForTerrainAvoidance", !.terrain = t,
                           !.waypoints = waypoints, !.desired = baseAltitude] :
               t \in Terrains, waypoints \in PathsUpTo(MaxPathPoints),
               baseAltitude \in Altitudes}
           \cup
           {[NoCall EXCEPT !.op = "clampSpeed", !.speed = speed] :
               speed \in ClampInputs}
           \cup
           {[NoCall EXCEPT !.op = "getPresetAltitude", !.terrain = t,
                           !.preset = preset, !.pos = pos] :
               t \in Terrains, preset \in Presets, pos \in Points}
           \cup
           {[NoCall EXCEPT !.op = "getAltitudePresets", !.terrain = t,
                           !.pos = pos] :
               t \in Terrains, pos \in Points}
           \cup
           {[NoCall EXCEPT !.op = "getTerrainHeight", !.terrain = t, !.pos = pos] :
               t \in Terrains, pos \in Points \cup {-10, 10, 11, 100}}
           \cup
           {[NoCall EXCEPT !.op = "calculateDynamicSpeed", !.terrain = t,
                           !.pos = pos, !.heading = heading,
                           !.desired = currentAltitude] :
               t \in SpeedTerrains, pos \in Points, heading \in Headings,
               currentAltitude \in CameraAltitudes}
           \cup
           {[NoCall EXCEPT !.op = "calculateAutoAltitudeForPath", !.terrain = t,
                           !.waypoints = waypoints] :
               t \in PathTerrains, waypoints \in PathsUpTo(MaxPathPoints)}
           \cup
           {[NoCall EXCEPT !.op = "calculateAutoAltitude", !.terrain = t,
                           !.pos = pos, !.radius = radius] :
               t \in AutoTerrains, pos \in Points, radius \in Radii}

Pending(op) == planner.op = op /\ ~planner.done

CalculateSafeAltitude ==
    /\ Pending("calculateSafeAltitude")
    /\ planner' = [planner EXCEPT
           !.done = TRUE,
           !.result = calculateSafeAltitude(planner.terrain, planner.pos,
                          planner.desired, planner.extraMargin)]
    /\ UNCHANGED autopilot

CalculateSafeAltitudeWithLookahead ==
    /\ Pending("calculateSafeAltitudeWithLookahead")
    /\ planner' = [planner EXCEPT
           !.done = TRUE,
           !.result = calculateSafeAltitudeWithLookahead(
                          planner.terrain, planner.pos, planner.heading,
                          planner.desired, planner.speed)]
    /\ UNCHANGED autopilot

AdjustPathForTerrainAvoidance ==
    /\ Pending("adjustPathForTerrainAvoidance")
    /\ planner' = [planner EXCEPT
           !.done = TRUE,
           !.path = adjustPathForTerrainAvoidance(
                        planner.terrain, planner.waypoints, planner.desired)]
    /\ UNCHANGED autopilot

ClampSpeed ==
    /\ Pending("clampSpeed")
    /\ planner' = [planner EXCEPT !.done = TRUE,
                                  !.result = clampSpeed(planner.speed)]
    /\ UNCHANGED autopilot

CalculateAutoAltitude ==
    /\ Pending("calculateAutoAltitude")
    /\ planner' = [planner EXCEPT
           !.done = TRUE,
           !.auto = calculateAutoAltitude(planner.terrain, planner.pos,
                                          planner.radius)]
    /\ UNCHANGED autopilot

CalculateAutoAltitudeForPath ==
    /\ Pending("calculateAutoAltitudeForPath")
    /\ planner' = [planner EXCEPT
           !.done = TRUE,
           !.result = calculateAutoAltitudeForPath(planner.terrain,
                                                   planner.waypoints)]
    /\ UNCHANGED autopilot

CalculateDynamicSpeed ==
    /\ Pending("calculateDynamicSpeed")
    /\ planner' = [planner EXCEPT
           !.done = TRUE,
           !.result = calculateDynamicSpeed(planner.terrain, planner.pos,
                          planner.heading, planner.desired)]
    /\ UNCHANGED autopilot

GetTerrainHeight ==
    /\ Pending("getTerrainHeight")
    /\ planner' = [planner EXCEPT
           !.done = TRUE,
           !.result = getTerrainHeight(planner.terrain, planner.pos)]
    /\ UNCHANGED autopilot

GetPresetAltitude ==
    /\ Pending("getPresetAltitude")
    /\ planner' = [planner EXCEPT
           !.done = TRUE,
           !.result = getPresetAltitude(planner.terrain, planner.preset,
                                        planner.pos)]
    /\ UNCHANGED autopilot

GetAltitudePresets ==
    /\ Pending("getAltitudePresets")
    /\ planner' = [planner EXCEPT
           !.done = TRUE,
           !.listed = getAltitudePresets(planner.terrain, planner.pos)]
    /\ UNCHANGED autopilot

PlannerNext ==
    \/ CalculateSafeAltitude
    \/ CalculateSafeAltitudeWithLookahead
    \/ AdjustPathForTerrainAvoidance
    \/ ClampSpeed
    \/ CalculateAutoAltitude
    \/ CalculateAutoAltitudeForPath
    \/ CalculateDynamicSpeed
    \/ GetTerrainHeight
    \/ GetPresetAltitude
    \/ GetAltitudePresets

PlannerSpec == PlannerInit /\ [][PlannerNext]_vars

----------------------------------------------------------------------------
(* One flight with its legs *)

(* One call of flyPath on a globe, followed leg by leg: `planner` holds    *)
(* the arguments, the camera, the locals of the call and the leg issued   *)
(* last. The safety features are switched at any moment. A completed leg  *)
(* leaves the camera at its destination, a canceled one where it was.     *)

\* the options of flyPath: speed and altitude; 0 stands for "not given"
FlightOptions ==
    {[speed |-> 0, altitude |-> 0], [speed |-> 10, altitude |-> 40],
     [speed |-> 500, altitude |-> 40]}
\* the camera when flyPath is called: position and heading
FlightCameras ==
    {[lat |-> 0, altitude |-> 40, heading |-> 0],
     [lat |-> 180, altitude |-> 280, heading |-> 180]}
\* the globes flown over
FlightTerrains ==
    {t \in Terrains : t.base = 0 /\ t.peak = 120}

FlightInit ==
    /\ AutopilotInit
    /\ planner \in
           {[NoCall EXCEPT !.op = "flyPath", !.terrain = t,
                           !.waypoints = waypoints,
                           !.speed = options.speed,
                           !.desired = options.altitude,
                           !.camera = [lat |-> c.lat,
                                       altitude |-> c.altitude],
                           !.heading = c.heading] :
               t \in FlightTerrains,
               waypoints \in PathsUpTo(MaxWaypoints),
               options \in FlightOptions, c \in FlightCameras}

InitTerrainAvoidance ==
    /\ Becomes(initTerrainAvoidance(Begin("initTerrainAvoidance")))

SetContentCreationMode ==
    \E enabled \in BOOLEAN :
        /\ Becomes(setContentCreationMode(Begin("setContentCreationMode"),
                                          enabled))

\* the pass of the loop of the flyPath call for the point at which the
\* run of autopilot state s stands
flightLeg(s) ==
    flyPathLeg(planner.terrain, ContentMode(s), s.runs[1].idx,
               planner.flight.adjustedWaypoints[s.runs[1].idx],
               planner.flight.speed, planner.camera, planner.heading)

\* flyPath up to its first await
FlyPathCalls ==
    /\ Pending("flyPath")
    /\ runs[1].n = 0
    /\ LET s == flyPath(Begin("flyPath"), Len(planner.waypoints), 1)
           plan == flyPathPlan(planner.terrain, ContentMode(cur),
                               planner.waypoints, planner.speed,
                               planner.desired)
       IN  /\ Moves(s)
           /\ planner' =
                  IF s.runs[1].n = 0
                  THEN [planner EXCEPT !.done = TRUE]
                  ELSE [planner EXCEPT
                           !.flight = plan,
                           !.leg = flyPathLeg(planner.terrain,
                                       ContentMode(s), 1,
                                       plan.adjustedWaypoints[1], plan.speed,
                                       planner.camera, planner.heading)]

\* the leg in flight completes: the camera is at its destination
FlightLegCompletes ==
    /\ Pending("flyPath")
    /\ currentFlight = 1
    /\ microtasks = << >>
    /\ Moves(legComplete(Begin("legComplete"), 1))
    /\ planner' = [planner EXCEPT !.camera = planner.leg.destination]

\* the leg in flight is canceled at once
FlightLegCancels ==
    /\ Pending("flyPath")
    /\ currentFlight = 1
    /\ Becomes(legCancel(Begin("legCancel"), 1))

\* the continuation of the await: the next leg, or the finally block
FlightContinues ==
    /\ Pending("flyPath")
    /\ microtasks # << >>
    /\ LET s == awaitContinuation(Begin("awaitContinuation"))
       IN  /\ Moves(s)
           /\ planner' =
                  IF s.runs[1].n = 0
                  THEN [planner EXCEPT !.done = TRUE]
                  ELSE [planner EXCEPT !.leg = flightLeg(s)]

FlightNext ==
    \/ InitTerrainAvoidance
    \/ SetContentCreationMode
    \/ FlyPathCalls
    \/ FlightLegCompletes
    \/ FlightLegCancels
    \/ FlightContinues

FlightSpec == FlightInit /\ [][FlightNext]_vars

TypeOK ==
    /\ contentCreationMode \in BOOLEAN /\ terrainAvoidance \in BOOLEAN
    /\ isFlying \in BOOLEAN /\ isOrbiting \in BOOLEAN /\ isLocked \in BOOLEAN
    /\ inputLocked \in BOOLEAN
    /\ orbitListener \in Nat /\ lockListener \in Nat
    /\ cameraFrame \in {"IDENTITY", "orbit"}
    /\ \A r \in RunIds : runs[r].idx <= runs[r].n /\ runs[r].n <= MaxWaypoints
    /\ \A r \in Queued : runs[r].n # 0
    /\ currentFlight \in {0} \cup (RunIds \ Queued)
    /\ \A r \in RunIds : runs[r].n # 0 <=> (r = currentFlight \/ r \in Queued)
    /\ Len(microtasks) = Cardinality(Queued)

----------------------------------------------------------------------------
(* Vocabulary of the properties *)

Did(e) == \E i \in 1..Len(effects) : effects[i] = e

Before(e, f) ==
    \E i, j \in 1..Len(effects) : i < j /\ effects[i] = e /\ effects[j] = f

ActiveRuns == {r \in RunIds : runs[r].n # 0}

Attached(kind) == {i \in 1..Len(onTick) : onTick[i].kind = kind}

Program == <<contentCreationMode, terrainAvoidance, isFlying, isOrbiting,
             isLocked, inputLocked, orbitListener, lockListener, onTick,
             cameraFrame, runs, currentFlight, microtasks, onCompleteCalls>>

Modes == {"Linear", "Orbit", "Lock"}

ModeActive(m) ==
    CASE m = "Linear" -> isFlying
      [] m = "Orbit"  -> isOrbiting
      [] m = "Lock"   -> isLocked

----------------------------------------------------------------------------
(* C1: in every reachable state at most one of isFlying, isOrbiting and   *)
(* isLocked is true.                                                       *)
C1_AtMostOneMode ==
    Cardinality({m \in Modes : ModeActive(m)}) <= 1

(* C2: no Linear run with a pending or still-to-be-issued leg coexists    *)
(* with an attached Orbit or Lock tick listener, and no two Linear runs   *)
(* have legs outstanding at the same time.                                 *)
C2_NoConcurrentDrivers ==
    /\ ActiveRuns # {} => onTick = << >>
    /\ Cardinality(ActiveRuns) <= 1

(* C3: whenever a Linear run has not yet returned, or an Orbit or Lock    *)
(* run is active, the input lock is held.                                  *)
C3_InputLockedWhileActive ==
    (ActiveRuns # {} \/ isFlying \/ isOrbiting \/ isLocked) => inputLocked

(* C4: when a leg of a Linear run is canceled the run ends: the wait      *)
(* resolves, its continuation issues no further flyTo, and the cleanup    *)
(* runs (the call returns with isFlying cleared and the input unlocked).  *)
C4_CancelEndsRun ==
    [][\A r \in RunIds :
          /\ (lastOp' = "legCancel" /\ LegCancel(r)) => r \in Queued'
          /\ (/\ lastOp = "legCancel" /\ microtasks = <<r>>
              /\ lastOp' = "awaitContinuation") =>
                /\ ~Did("flyTo")'
                /\ runs'[r] = NoRun
                /\ ~isFlying'
                /\ ~inputLocked']_vars

(* C5: every flyPath call that passed its guard eventually returns, given *)
(* that every issued leg eventually fires complete or cancel; at the      *)
(* moment it returns isFlying is false and the input lock was set to      *)
(* unlocked.                                                               *)
C5_FlyPathReturnsClean ==
    /\ \A r \in RunIds : (runs[r].n # 0) ~> (runs[r].n = 0)
    /\ [][\A r \in RunIds :
             (runs[r].n # 0 /\ runs'[r].n = 0) =>
                 /\ ~isFlying'
                 /\ ~inputLocked'
                 /\ Before("setInputLocked(false)", "flyPath:return")']_vars

\* a run has returned in the continuation of its last leg
C5_Witness ==
    /\ lastOp = "awaitContinuation"
    /\ Did("flyPath:return")
    /\ ~isFlying /\ ~inputLocked

(* C6: a change from one mode to a different mode passes through Idle:    *)
(* when a mode becomes active while another one is, a point with all      *)
(* three flags false and no tick listener attached lies in between.       *)
C6_ThroughIdle ==
    [][\A a, b \in Modes :
          (a # b /\ ModeActive(a) /\ ~ModeActive(b) /\ ModeActive(b)')
              => Did("idle")']_vars

(* C7: an orbit with a non-zero degPerTick and an onComplete callback     *)
(* invokes it exactly once, on the tick at which the accumulated rotation *)
(* first reaches 360 (the 36th tick for 10 degrees per tick); the orbit   *)
(* is then already stopped and isActive() is false right after.           *)
C7_OrbitCompletesOnce ==
    /\ [](/\ onCompleteCalls <= 1
          /\ \A i \in Attached("orbit") :
                onTick[i].totalRotation < FullCircle)
    /\ [][\A i \in 1..Len(onTick) :
             (/\ Tick
              /\ isOrbiting
              /\ onTick[i].id = orbitListener
              /\ onTick[i].speed # 0
              /\ onTick[i].onComplete) =>
                 LET reached == onTick[i].totalRotation
                                  + Abs(onTick[i].speed) >= FullCircle
                     tickNo == (onTick[i].totalRotation
                                  \div Abs(onTick[i].speed)) + 1
                 IN  /\ Did("onComplete")' <=> reached
                     /\ onTick[i].speed = 10 => (reached <=> tickNo = 36)
                     /\ reached =>
                           /\ onCompleteCalls' = 1
                           /\ Before("removeOrbitListener", "onComplete")'
                           /\ ~isOrbiting'
                           /\ Attached("orbit")' = {}
                           /\ ~isActive(cur)']_vars

(* C8: stopOrbit (stopLock) called while its mode is active leaves the    *)
(* mode's flag false, its tick listener detached and the input unlocked.  *)
C8_StopIsTotal ==
    [][/\ (isOrbiting /\ StopOrbit) =>
              /\ ~isOrbiting'
              /\ orbitListener' = 0
              /\ Attached("orbit")' = {}
              /\ ~inputLocked'
       /\ (isLocked /\ StopLock) =>
              /\ ~isLocked'
              /\ lockListener' = 0
              /\ Attached("lock")' = {}
              /\ ~inputLocked']_vars

\* stopOrbit has just stopped an active orbit
C8_Witness ==
    /\ lastOp = "stopOrbit"
    /\ Did("removeOrbitListener")
    /\ Did("setInputLocked(false)")

(* C9: stopOrbit and stopLock are idempotent: a second call right after   *)
(* the first changes nothing and calls no collaborator.                    *)
C9_StopIdempotent ==
    [][/\ (lastOp \in {"stopOrbit", "stopOrbit again"} /\ StopOrbit) =>
              (Program' = Program /\ effects' = << >>)
       /\ (lastOp \in {"stopLock", "stopLock again"} /\ StopLock) =>
              (Program' = Program /\ effects' = << >>)]_vars

\* stopLock has been called twice in a row, the first call on a live run
C9_Witness ==
    /\ lastOp = "stopLock again"
    /\ effects = << >>
    /\ ~isLocked /\ lockListener = 0

(* C10: startOrbit while a Lock run is active stops the Lock first: after *)
(* the call isLocked is false and the Lock listener detached, isOrbiting  *)
(* is true and the Orbit listener attached, and the input lock is held.   *)
C10_OrbitStopsLock ==
    [][(lastOp' = "startOrbit" /\ isLocked /\ StartOrbit) =>
          /\ ~isLocked'
          /\ lockListener' = 0
          /\ Attached("lock")' = {}
          /\ isOrbiting'
          /\ Cardinality(Attached("orbit")') = 1
          /\ \A i \in Attached("orbit")' : onTick'[i].id = orbitListener'
          /\ inputLocked'
          /\ Before("removeLockListener", "addOrbitListener")']_vars

\* startOrbit has just replaced an active Lock run
C10_Witness ==
    /\ lastOp = "startOrbit"
    /\ Did("removeLockListener")
    /\ isOrbiting /\ ~isLocked

----------------------------------------------------------------------------
\* one call of flyPathWithTargetLock with the given arguments
LockRequest(path, speed, duration) ==
    Becomes(flyPathWithTargetLock(Begin("flyPathWithTargetLock"),
                                  path, speed, duration))

\* one call of flyPath with n waypoints
FlyPathRequest(n) ==
    /\ (isFlying \/ n = 0) \/ FreeRuns(cur) # {}
    /\ LET r == IF FreeRuns(cur) = {} THEN 1
                ELSE CHOOSE f \in FreeRuns(cur) :
                         \A g \in FreeRuns(cur) : f <= g
       IN  Becomes(flyPath(Begin("flyPath"), n, r))

\* number of flyTo calls made by the latest handler
FlyToCalls == Cardinality({i \in 1..Len(effects) : effects[i] = "flyTo"})

(* C11: flyPathWithTargetLock with a path of fewer than 2 points, or      *)
(* while a Lock run is active, is a no-op: no flag, listener, run or      *)
(* camera frame changes, an active Orbit is not stopped, isFlying is not  *)
(* cleared and the input lock is not written.                              *)
C11_LockGuardNoOp ==
    [][lastOp' = "flyPathWithTargetLock" =>
          \/ Program' = Program /\ effects' = << >>
          \/ \A path \in LockPaths, speed \in LockSpeeds,
                duration \in LockDurations :
                ~ /\ isLocked \/ Len(path) < 2
                  /\ LockRequest(path, speed, duration)]_vars

\* a rejected flyPathWithTargetLock has left an active Orbit running
C11_Witness ==
    /\ lastOp = "flyPathWithTargetLock"
    /\ effects = << >>
    /\ isOrbiting /\ orbitListener # 0 /\ ~isLocked /\ inputLocked

(* C12: flyPath with an empty waypoint list, or while a Linear run is     *)
(* active, returns at once with no state change: no flag changes, the     *)
(* input lock is not written and no flyTo leg is issued.                   *)
C12_FlyPathGuardNoOp ==
    [][lastOp' = "flyPath" =>
          \/ Program' = Program /\ effects' = << >>
          \/ \A n \in 0..MaxWaypoints :
                ~ /\ isFlying \/ n = 0
                  /\ FlyPathRequest(n)]_vars

\* a flyPath call has been rejected while a run was in flight
C12_Witness ==
    /\ lastOp = "flyPath"
    /\ effects = << >>
    /\ isFlying /\ ActiveRuns # {}

(* C13: within one Linear run the legs are issued in waypoint order and   *)
(* one at a time: the run starts at waypoint 1 with one flyTo; it moves   *)
(* on only in the continuation of its own await, which is queued only     *)
(* when the run's flight ends (by its complete or cancel callback, the    *)
(* latter also fired by the flyTo of another leg); the continuation      *)
(* issues the flyTo of the next waypoint, one, while no flight of the run *)
(* is in progress, or returns when the last waypoint was issued. No       *)
(* waypoint is skipped or issued twice, and no step issues two legs.      *)
C13_LegsInOrder ==
    [][/\ FlyToCalls' <= 1
       /\ FlyToCalls' = 1 =>
             \E r \in RunIds : runs'[r] # runs[r] /\ currentFlight' = r
       /\ \A r \in RunIds :
             /\ (runs[r].n = 0 /\ runs'[r].n # 0) =>
                   /\ lastOp' = "flyPath"
                   /\ runs'[r].idx = 1
                   /\ FlyToCalls' = 1
             /\ (runs[r].n # 0 /\ runs'[r] # runs[r]) =>
                   /\ lastOp' = "awaitContinuation"
                   /\ microtasks # << >> /\ Head(microtasks) = r
                   /\ currentFlight # r
                   /\ \/ /\ runs[r].idx < runs[r].n
                         /\ runs'[r] = [runs[r] EXCEPT !.idx = @ + 1]
                         /\ FlyToCalls' = 1
                      \/ /\ runs[r].idx = runs[r].n
                         /\ runs'[r] = NoRun
                         /\ FlyToCalls' = 0
             /\ (r \in Queued' \ Queued) =>
                   /\ r = currentFlight
                   /\ \/ lastOp' \in {"legComplete", "legCancel"}
                      \/ Did("cancel(previous flight)")']_vars

\* the continuation of a run of three waypoints has issued its third leg
\* while another run, whose flight has ended, waits for its continuation
C13_Witness ==
    /\ lastOp = "awaitContinuation"
    /\ FlyToCalls = 1
    /\ \E r \in RunIds : runs[r].n = 3 /\ runs[r].idx = 3 /\ currentFlight = r
    /\ \E r \in RunIds : runs[r].n # 0 /\ r \in Queued

(* C14: an active Lock run stops exactly on the first tick whose elapsed  *)
(* time since the start is at least totalDuration: on that tick the       *)
(* camera pose is not written, isLocked becomes false, the listener is    *)
(* detached and the input is unlocked; on every earlier tick the run      *)
(* stays active and the pose is written. So under a clock that keeps      *)
(* ticking and advancing every Lock run comes to its end.                  *)
C14_LockStopsOnTime ==
    /\ [][\A dt \in TickSeconds :
             (TickBy(dt) /\ isLocked) =>
                 LET c == Closure(cur, lockListener)
                 IN  IF c.elapsed + dt >= c.totalDuration
                     THEN /\ ~isLocked' /\ lockListener' = 0
                          /\ Attached("lock")' = {}
                          /\ ~inputLocked'
                          /\ ~Did("camera.position")'
                     ELSE /\ isLocked' /\ lockListener' = lockListener
                          /\ Attached("lock")' # {}
                          /\ Did("camera.position")']_vars
    /\ (isLocked ~> ~isLocked)

\* a Lock run has been ended by its own listener
C14_Witness ==
    /\ lastOp = "tick"
    /\ Did("removeLockListener")
    /\ ~isLocked /\ lockListener = 0 /\ Attached("lock") = {}

(* C15: showGuideLine and hideGuideLine may be called in any state and    *)
(* leave the flight state machine unchanged: isFlying, isOrbiting,        *)
(* isLocked, both tick listeners, the runs and the input lock are as      *)
(* before.                                                                 *)
C15_GuideLineInert ==
    [][(ShowGuideLine \/ HideGuideLine) => Program' = Program]_vars

\* the guide line has been replaced while a Lock run was active
C15_Witness ==
    /\ lastOp = "showGuideLine"
    /\ Did("entities.remove") /\ Did("entities.add")
    /\ guideLineEntity /\ isLocked /\ lockListener # 0

----------------------------------------------------------------------------
\* the calls of the planner
Called(op) == planner.op = op /\ planner.done

\* the largest element of a non-empty set of integers
Highest(S) == CHOOSE x \in S : \A y \in S : y <= x

(* C16: every altitude returned by adjustPathForTerrainAvoidance, at the  *)
(* endpoints and at the smoothed interior points alike, is at least the   *)
(* terrain height at that point plus 80 m.                                 *)
C16_PathClearsTerrain ==
    Called("adjustPathForTerrainAvoidance") =>
        /\ Len(planner.path) = Len(planner.waypoints)
        /\ \A i \in 1..Len(planner.path) :
              /\ planner.path[i].lat = planner.waypoints[i]
              /\ planner.path[i].altitude >=
                     getTerrainHeight(planner.terrain, planner.waypoints[i])
                         + 80

\* the average of an interior point fell below its own clearance and the
\* point has been lifted back to it
C16_Witness ==
    /\ Called("adjustPathForTerrainAvoidance")
    /\ Len(planner.path) >= 3
    /\ LET before == safePath(planner.terrain, planner.waypoints,
                              planner.desired)
       IN  \E i \in 2..(Len(planner.path) - 1) :
              /\ before[i - 1].altitude \div 4 + before[i].altitude \div 2
                     + before[i + 1].altitude \div 4
                   < getTerrainHeight(planner.terrain, planner.waypoints[i])
                         + 80
              /\ planner.path[i].altitude =
                     getTerrainHeight(planner.terrain, planner.waypoints[i])
                         + 80

(* C17: calculateSafeAltitude returns the larger of the desired altitude  *)
(* and terrain height + 50 + 30 + extraMargin; over terrain of height 0   *)
(* and without extra margin 40 gives 80 and 200 gives 200; the result is  *)
(* never below the desired altitude nor below terrain height + 80.        *)
C17_SafeAltitude ==
    Called("calculateSafeAltitude") =>
        LET h == getTerrainHeight(planner.terrain, planner.pos)
            floor == h + 50 + 30 + planner.extraMargin
        IN  /\ planner.result \in {planner.desired, floor}
            /\ planner.result >= planner.desired
            /\ planner.result >= floor
            /\ planner.result >= h + 80
            /\ (h = 0 /\ planner.extraMargin = 0 /\ planner.desired = 40)
                   => planner.result = 80
            /\ (h = 0 /\ planner.extraMargin = 0 /\ planner.desired = 200)
                   => planner.result = 200

\* the terrain and the extra margin have lifted the desired altitude
C17_Witness ==
    /\ Called("calculateSafeAltitude")
    /\ getTerrainHeight(planner.terrain, planner.pos) > 0
    /\ planner.extraMargin > 0
    /\ planner.result > planner.desired

(* C18: calculateSafeAltitudeWithLookahead takes the highest terrain over *)
(* the current point and 5 equally spaced points out to min(200, 3*speed) *)
(* metres along the heading and returns the larger of the desired         *)
(* altitude and that height + 80; it is never lower than                  *)
(* calculateSafeAltitude for the same point and desired altitude.          *)
C18_Lookahead ==
    Called("calculateSafeAltitudeWithLookahead") =>
        LET reach == IF 3 * planner.speed < 200 THEN 3 * planner.speed
                     ELSE 200
            ahead == IF planner.heading = 0 THEN 1 ELSE -1
            heights ==
                {getTerrainHeight(planner.terrain,
                                  planner.pos + ahead * ((reach * k) \div 5)) :
                     k \in 0..5}
            highest == Highest(heights)
        IN  /\ planner.result \in {planner.desired, highest + 80}
            /\ planner.result >= planner.desired
            /\ planner.result >= highest + 80
            /\ planner.result >=
                   calculateSafeAltitude(planner.terrain, planner.pos,
                                         planner.desired, 0)

\* a ridge ahead of the point has lifted the altitude above what the
\* point alone requires
C18_Witness ==
    /\ Called("calculateSafeAltitudeWithLookahead")
    /\ planner.result >
           calculateSafeAltitude(planner.terrain, planner.pos,
                                 planner.desired, 0)

(* C19: over terrain of height 0 everywhere adjustPathForTerrainAvoidance *)
(* with baseAltitude 200 returns altitude 200 for every waypoint of a     *)
(* path of any length, before and after smoothing.                         *)
C19_FlatPathKeepsBase ==
    (/\ Called("adjustPathForTerrainAvoidance")
     /\ planner.desired = 200
     /\ planner.terrain.base = 0
     /\ planner.terrain.peakFrom > planner.terrain.peakTo) =>
        /\ \A i \in 1..Len(planner.waypoints) :
              planner.path[i].altitude = 200
        /\ \A i \in 1..Len(planner.waypoints) :
              safePath(planner.terrain, planner.waypoints,
                       planner.desired)[i].altitude = 200

\* a path long enough to be smoothed has been planned over flat terrain
C19_Witness ==
    /\ Called("adjustPathForTerrainAvoidance")
    /\ planner.desired = 200
    /\ planner.terrain.base = 0
    /\ planner.terrain.peakFrom > planner.terrain.peakTo
    /\ Len(planner.waypoints) >= 3
    /\ Len(planner.path) = Len(planner.waypoints)

(* C20: clampSpeed(v) lies in [20, 150]; it is v inside the range, 20     *)
(* below it and 150 above it (5 gives 20, 300 gives 150, 60 gives 60),    *)
(* and clamping a clamped speed changes nothing.                           *)
C20_ClampSpeed ==
    Called("clampSpeed") =>
        /\ planner.result >= 20 /\ planner.result <= 150
        /\ (planner.speed >= 20 /\ planner.speed <= 150)
               => planner.result = planner.speed
        /\ planner.speed < 20 => planner.result = 20
        /\ planner.speed > 150 => planner.result = 150
        /\ planner.speed = 5 => planner.result = 20
        /\ planner.speed = 300 => planner.result = 150
        /\ planner.speed = 60 => planner.result = 60
        /\ clampSpeed(planner.result) = planner.result

\* a speed above the range has been clamped
C20_Witness ==
    /\ Called("clampSpeed")
    /\ planner.speed = 300
    /\ planner.result = 150

----------------------------------------------------------------------------
\* the 17 heights sampled by the call, as a set of (index, height) pairs
Sampled ==
    {<<0, getTerrainHeight(planner.terrain, planner.pos)>>} \cup
    {<<k, LET north == RingNorth(planner.radius, k - 1)
          IN  getTerrainHeightWithin(planner.terrain, planner.pos + north.lo,
                                     planner.pos + north.hi)>> :
        k \in 1..16}

Lowest(S) == CHOOSE x \in S : \A y \in S : x <= y

(* C21: calculateAutoAltitude classifies the 17 samples by variation =    *)
(* max - min as flat (< 20), hilly (< 100), urban (< 500) or mountainous, *)
(* overrides the class to coastal whenever min < 5 and avg < 50, and      *)
(* returns a recommendedAltitude within [80, 1500] and a confidence       *)
(* within [0, 1].                                                          *)
C21_AutoAltitude ==
    Called("calculateAutoAltitude") =>
        LET heights == {p[2] : p \in Sampled}
            lo == Lowest(heights)
            hi == Highest(heights)
            total == SeqSum([k \in 1..17 |->
                        (CHOOSE p \in Sampled : p[1] = k - 1)[2]])
            class == IF hi - lo < 20 THEN "flat"
                     ELSE IF hi - lo < 100 THEN "hilly"
                     ELSE IF hi - lo < 500 THEN "urban"
                     ELSE "mountainous"
        IN  /\ planner.auto.sceneType =
                   IF lo < 5 /\ total < 50 * 17 THEN "coastal" ELSE class
            /\ planner.auto.recommendedAltitude >= 80 * 170
            /\ planner.auto.recommendedAltitude <= 1500 * 170
            /\ planner.auto.confidence >= 0
            /\ planner.auto.confidence <= 100

\* mountainous terrain whose formula exceeds 1500 m has been clamped
C21_Witness ==
    /\ Called("calculateAutoAltitude")
    /\ planner.auto.sceneType = "mountainous"
    /\ planner.auto.recommendedAltitude = 1500 * 170
    /\ altitudeFor("mountainous",
                   sampleTerrain(planner.terrain, planner.pos,
                                 planner.radius)) > 1500 * 170

\* the recommended altitudes of the waypoints of the call, in 1/170 m
Recommended == recommendedAlong(planner.terrain, planner.waypoints)
\* 0.4 * mean + 0.6 * max of them is WeightedNum / WeightedDen metres
WeightedNum ==
    2 * SeqSum(Recommended)
        + 3 * Len(Recommended) * Highest({Recommended[i] :
                                             i \in 1..Len(Recommended)})
WeightedDen == 5 * Len(Recommended) * 170

(* C22 as stated: calculateAutoAltitudeForPath on a non-empty waypoint    *)
(* list returns 0.4 * mean + 0.6 * max of the per-waypoint recommended    *)
(* altitudes, so the result lies between the mean and the maximum of      *)
(* those recommendations (and therefore within [80, 1500]).                *)
C22_WeightedExactly ==
    (Called("calculateAutoAltitudeForPath") /\ planner.waypoints # << >>) =>
        /\ planner.result * WeightedDen = WeightedNum
        /\ planner.result * 170 * Len(Recommended) >= SeqSum(Recommended)
        /\ planner.result * 170 <=
               Highest({Recommended[i] : i \in 1..Len(Recommended)})
        /\ planner.result >= 80 /\ planner.result <= 1500

(* C22 amended: calculateAutoAltitudeForPath on a non-empty waypoint list *)
(* returns 0.4 * mean + 0.6 * max of the per-waypoint recommended         *)
(* altitudes rounded to the nearest whole metre (a half rounds upwards),  *)
(* so the result is within half a metre of that value and within          *)
(* [80, 1500].                                                             *)
C22_WeightedRounded ==
    (Called("calculateAutoAltitudeForPath") /\ planner.waypoints # << >>) =>
        /\ 2 * planner.result * WeightedDen <= 2 * WeightedNum + WeightedDen
        /\ 2 * planner.result * WeightedDen > 2 * WeightedNum - WeightedDen
        /\ planner.result >= 80 /\ planner.result <= 1500

\* waypoints with different recommendations whose weighted value is not a
\* whole number of metres
C22_Witness ==
    /\ Called("calculateAutoAltitudeForPath")
    /\ Len(planner.waypoints) >= 2
    /\ \E i, j \in 1..Len(Recommended) : Recommended[i] # Recommended[j]
    /\ planner.result * WeightedDen # WeightedNum

\* the sum of the absolute height deltas between consecutive samples of
\* the 10 samples ahead of a point: 10 times the average variation
Roughness(t, pos, heading) ==
    LET h(i) == getTerrainHeight(t, pos + (IF heading = 0 THEN 1 ELSE -1)
                                              * 50 * i)
    IN  SeqSum([i \in 1..10 |-> Abs(h(i) - h(i - 1))])

(* C23: calculateDynamicSpeed averages the absolute height delta between  *)
(* consecutive samples over 10 lookahead samples and returns 30 when the  *)
(* average is > 50, 60 when it is > 20, otherwise the smaller of 100 and  *)
(* the recommended speed of the altitude (30 below 100 m, 60 below 300 m, *)
(* 100 otherwise); the result is one of 30, 60, 100, and at the same      *)
(* altitude of at least 100 m rougher terrain never gives a higher speed. *)
C23_DynamicSpeed ==
    Called("calculateDynamicSpeed") =>
        LET rough == Roughness(planner.terrain, planner.pos, planner.heading)
            altitude == planner.desired
            recommended == IF altitude < 100 THEN 30
                           ELSE IF altitude < 300 THEN 60 ELSE 100
        IN  /\ planner.result =
                   IF rough > 500 THEN 30
                   ELSE IF rough > 200 THEN 60
                   ELSE IF recommended < 100 THEN recommended ELSE 100
            /\ planner.result \in {30, 60, 100}
            /\ altitude >= 100 =>
                   \A t \in SpeedTerrains :
                       Roughness(t, planner.pos, planner.heading) >= rough
                           => calculateDynamicSpeed(t, planner.pos,
                                  planner.heading, altitude)
                                  <= planner.result

\* terrain whose average variation is exactly 50 has not slowed the
\* camera down to 30
C23_Witness ==
    /\ Called("calculateDynamicSpeed")
    /\ Roughness(planner.terrain, planner.pos, planner.heading) = 500
    /\ planner.result = 60

\* the terrain of the call read with height 0 where no tile is loaded
NoTile(pos) ==
    planner.terrain.holeFrom <= pos /\ pos <= planner.terrain.holeTo
HeightOrZero(pos) ==
    IF NoTile(pos) THEN 0
    ELSE IF planner.terrain.peakFrom <= pos /\ pos <= planner.terrain.peakTo
         THEN planner.terrain.peak
         ELSE planner.terrain.base

\* the highest such height over a point and the 5 samples of 36 m steps
\* (speed 60) or of the steps of the call's speed, towards `ahead`
HighestAhead(pos, ahead, step) ==
    Highest({HeightOrZero(pos + ahead * step * k) : k \in 0..5})

(* C24: a terrain query without data gives height 0: getTerrainHeight     *)
(* returns 0 whenever the provider returns undefined, and                  *)
(* calculateSafeAltitude, calculateSafeAltitudeWithLookahead,              *)
(* adjustPathForTerrainAvoidance and calculateDynamicSpeed still return a *)
(* value, the one obtained with every missing sample read as height 0.    *)
C24_MissingTerrainIsZero ==
    /\ Called("getTerrainHeight") =>
          planner.result = HeightOrZero(planner.pos)
    /\ Called("calculateSafeAltitude") =>
          planner.result =
              Max(planner.desired,
                  HeightOrZero(planner.pos) + 80 + planner.extraMargin)
    /\ Called("calculateSafeAltitudeWithLookahead") =>
          planner.result =
              Max(planner.desired,
                  HighestAhead(planner.pos,
                               IF planner.heading = 0 THEN 1 ELSE -1,
                               Min(200, 3 * planner.speed) \div 5) + 80)
    /\ (Called("adjustPathForTerrainAvoidance")
            /\ Len(planner.waypoints) >= 2) =>
          /\ Len(planner.path) = Len(planner.waypoints)
          /\ planner.path[1].altitude =
                 Max(planner.desired,
                     HighestAhead(planner.waypoints[1],
                                  IF planner.waypoints[2]
                                         >= planner.waypoints[1]
                                  THEN 1 ELSE -1, 36) + 80)
    /\ Called("calculateDynamicSpeed") =>
          LET ahead == IF planner.heading = 0 THEN 1 ELSE -1
              rough == SeqSum([i \in 1..10 |->
                          Abs(HeightOrZero(planner.pos + ahead * 50 * i)
                              - HeightOrZero(planner.pos
                                             + ahead * 50 * (i - 1)))])
          IN  planner.result =
                  IF rough > 500 THEN 30
                  ELSE IF rough > 200 THEN 60
                  ELSE Min(100, IF planner.desired < 100 THEN 30
                                ELSE IF planner.desired < 300 THEN 60
                                ELSE 100)

\* a path has been planned from a first waypoint without a tile, over
\* terrain that is not at height 0 elsewhere
C24_Witness ==
    /\ Called("adjustPathForTerrainAvoidance")
    /\ Len(planner.waypoints) >= 2
    /\ NoTile(planner.waypoints[1])
    /\ planner.terrain.base < 0
    /\ planner.path[1].altitude = 80

(* C25: with a positive speed the total duration of a Lock run is the     *)
(* total path length (the sum of the distances between consecutive path   *)
(* points) divided by the speed, whatever duration was given; without a   *)
(* positive speed the given duration is used; the time knots of the       *)
(* spline are evenly spaced, the first 0 and the last the total duration. *)
C25_LockDuration ==
    [][lastOp' = "flyPathWithTargetLock" =>
          \A path \in LockPaths, speed \in LockSpeeds,
             duration \in LockDurations :
             (~isLocked /\ Len(path) >= 2
                 /\ LockRequest(path, speed, duration)) =>
                 LET c == Closure(cur, lockListener)'
                     n == Len(path)
                     total == SeqSum([i \in 1..(n - 1) |->
                                         Abs(path[i + 1] - path[i])])
                 IN  /\ speed > 0 => c.totalDuration * speed = total
                     /\ (speed <= 0 /\ duration # 0) =>
                            c.totalDuration = duration
                     /\ Len(c.times) = n
                     /\ c.times[1] = 0
                     /\ c.times[n] = c.totalDuration
                     /\ \A i \in 1..(n - 1) :
                            c.times[i + 1] - c.times[i]
                                = c.times[2] - c.times[1]]_vars

\* a Lock run over three path points has taken its duration from the speed
C25_Witness ==
    /\ lastOp = "flyPathWithTargetLock"
    /\ isLocked /\ lockListener # 0
    /\ Closure(cur, lockListener).totalDuration = 4
    /\ Closure(cur, lockListener).times = <<0, 2, 4>>

\* the leg issued last lasts max(3, distance / speed) seconds, the
\* distance being that from the camera to `target`
LastsAsFarAs(target) ==
    LET leg == planner.leg
        north == target.lat - leg.from.lat
        up == target.altitude - leg.from.altitude
        squared == north * north + up * up
        reach == 3 * leg.speed
        seconds == leg.duration
    IN  /\ seconds.per > 0
        /\ seconds.squared >= 9 * seconds.per * seconds.per
        /\ squared <= reach * reach =>
               seconds.squared = 9 * seconds.per * seconds.per
        /\ squared > reach * reach =>
               seconds.squared * leg.speed * leg.speed
                   = squared * seconds.per * seconds.per

(* C26, as claimed: every Linear leg is animated over                     *)
(* max(3, distance / speed) seconds, the distance being that from the     *)
(* camera position when the leg is issued to the destination of the leg,  *)
(* which is the destination handed to flyTo; the duration is never below  *)
(* 3 seconds.                                                              *)
C26_DurationToDestination ==
    planner.leg.index # 0 => LastsAsFarAs(planner.leg.destination)

(* C26, amended: every Linear leg is animated over                        *)
(* max(3, distance / speed) seconds, the distance being that from the     *)
(* camera position when the leg is issued to the point of the adjusted    *)
(* path, before flyToPointWithAvoidance lifts it to the safe altitude;    *)
(* the duration handed to flyTo is never below 3 seconds. The two         *)
(* distances are the same unless the leg is lifted.                        *)
C26_LegDuration ==
    planner.leg.index # 0 =>
        /\ LastsAsFarAs(planner.leg.requested)
        /\ planner.leg.destination = planner.leg.requested =>
               LastsAsFarAs(planner.leg.destination)

\* a leg longer than 3 seconds whose destination has been lifted to the
\* safe altitude
C26_Witness ==
    /\ planner.leg.index # 0
    /\ planner.leg.duration.squared
           > 9 * planner.leg.duration.per * planner.leg.duration.per
    /\ planner.leg.destination.altitude > planner.leg.requested.altitude

\* the path of the call before smoothing
Unsmoothed == safePath(planner.terrain, planner.waypoints, planner.desired)

(* C27: the smoothing of adjustPathForTerrainAvoidance is one pass that   *)
(* computes every interior altitude from the altitudes before smoothing   *)
(* of the point and its two neighbours (weights 0.25, 0.5, 0.25), never   *)
(* from a neighbour already smoothed, and then keeps the point at its     *)
(* terrain clearance; the first and the last point keep their altitude    *)
(* and a path of fewer than 3 points is returned as it is.                 *)
C27_SinglePass ==
    Called("adjustPathForTerrainAvoidance") =>
        LET n == Len(planner.waypoints)
        IN  /\ Len(planner.path) = n
            /\ n < 3 => planner.path = Unsmoothed
            /\ n >= 3 =>
                  /\ planner.path[1] = Unsmoothed[1]
                  /\ planner.path[n] = Unsmoothed[n]
                  /\ \A i \in 2..(n - 1) :
                        LET sum == Unsmoothed[i - 1].altitude
                                       + 2 * Unsmoothed[i].altitude
                                       + Unsmoothed[i + 1].altitude
                            floor == getTerrainHeight(planner.terrain,
                                         planner.waypoints[i]) + 80
                        IN  IF sum >= 4 * floor
                            THEN 4 * planner.path[i].altitude = sum
                            ELSE planner.path[i].altitude = floor

\* the third point of a path has been averaged with the altitude its
\* neighbour had before that neighbour was smoothed
C27_Witness ==
    /\ Called("adjustPathForTerrainAvoidance")
    /\ Len(planner.waypoints) >= 4
    /\ planner.path[2].altitude # Unsmoothed[2].altitude
    /\ 4 * planner.path[3].altitude =
           Unsmoothed[2].altitude + 2 * Unsmoothed[3].altitude
               + Unsmoothed[4].altitude
    /\ 4 * planner.path[3].altitude #
           planner.path[2].altitude + 2 * Unsmoothed[3].altitude
               + Unsmoothed[4].altitude

(* C28: in every reachable state the tick subscriptions match the mode    *)
(* flags: an Orbit listener is attached to the clock if and only if       *)
(* isOrbiting, a Lock listener if and only if isLocked, and never more    *)
(* than one of either kind; the handles name the attached listeners.      *)
C28_ListenersMatchFlags ==
    /\ Cardinality(Attached("orbit")) = IF isOrbiting THEN 1 ELSE 0
    /\ Cardinality(Attached("lock")) = IF isLocked THEN 1 ELSE 0
    /\ isOrbiting <=> orbitListener # 0
    /\ isLocked <=> lockListener # 0
    /\ \A i \in 1..Len(onTick) :
          onTick[i].id = IF onTick[i].kind = "orbit" THEN orbitListener
                         ELSE lockListener

\* an orbit restarted over a running one has left one listener attached
C28_Witness ==
    /\ lastOp = "startOrbit"
    /\ Before("removeOrbitListener", "addOrbitListener")
    /\ isOrbiting
    /\ Cardinality(Attached("orbit")) = 1

(* C29: whenever the controller is quiescent (isFlying, isOrbiting and    *)
(* isLocked false, no flyPath call still executing and no tick listener   *)
(* attached) the input lock is released.                                   *)
C29_QuiescentUnlocked ==
    (/\ ~isFlying /\ ~isOrbiting /\ ~isLocked
     /\ ActiveRuns = {}
     /\ onTick = << >>) => ~inputLocked

\* the controller has become quiescent by the cancellation of the last
\* leg of a flight, whose return released the input lock
C29_Witness ==
    /\ lastOp = "awaitContinuation"
    /\ Did("flyPath:return")
    /\ ~isFlying /\ ~isOrbiting /\ ~isLocked
    /\ ActiveRuns = {} /\ onTick = << >>
    /\ ~inputLocked

(* C30: isActive() is true whenever a Linear run still has a leg          *)
(* animating or waypoints left to fly: it is never false while a flyPath  *)
(* call that passed its guard has not returned.                            *)
C30_ActiveWhileFlying ==
    ActiveRuns # {} => isActive(cur)

(* C31: an orbit's onComplete callback is invoked only by that orbit's    *)
(* own completion: it is invoked only in a tick in which the attached     *)
(* orbit, started with a callback, reaches 360 degrees, and then once. A  *)
(* stopOrbit, a startOrbit or a flyPathWithTargetLock that ends an orbit  *)
(* early invokes nothing and leaves no listener of that orbit attached.   *)
C31_OnCompleteOnlyOnCompletion ==
    [][/\ Did("onComplete")' =>
             /\ lastOp' = "tick"
             /\ isOrbiting /\ orbitListener # 0
             /\ LET c == Closure(cur, orbitListener)
                IN  /\ c.kind = "orbit"
                    /\ c.onComplete
                    /\ c.totalRotation < FullCircle
                    /\ c.totalRotation + Abs(c.speed) >= FullCircle
             /\ Cardinality({i \in 1..Len(effects') :
                                effects'[i] = "onComplete"}) = 1
             /\ ~isOrbiting' /\ Attached("orbit")' = {}
       /\ (lastOp' # "tick" /\ Did("removeOrbitListener")') =>
             /\ ~Did("onComplete")'
             /\ onCompleteCalls' = 0
             /\ \A i \in Attached("orbit")' :
                   /\ lastOp' = "startOrbit"
                   /\ onTick'[i].id = orbitListener'
                   /\ onTick'[i].totalRotation = 0]_vars

\* flyPathWithTargetLock has ended a running orbit and nothing was invoked
C31_Witness ==
    /\ lastOp = "flyPathWithTargetLock"
    /\ Did("removeOrbitListener")
    /\ ~Did("onComplete")
    /\ onCompleteCalls = 0
    /\ ~isOrbiting /\ isLocked

(* C32: startOrbit while an Orbit is active replaces it: the old orbit is *)
(* stopped first, exactly one Orbit listener remains attached, and its    *)
(* accumulated rotation starts from 0; every tick adds the orbit's own    *)
(* |speed| and the orbit ends exactly in the tick that brings its own     *)
(* total to 360 degrees, whatever the old orbit had accumulated.          *)
C32_RestartReplacesOrbit ==
    [][/\ (lastOp' = "startOrbit" /\ isOrbiting) =>
             /\ Before("removeOrbitListener", "addOrbitListener")'
             /\ Before("lookAtTransform(IDENTITY)", "addOrbitListener")'
             /\ isOrbiting' /\ inputLocked'
             /\ Cardinality(Attached("orbit")') = 1
             /\ LET c == Closure(cur', orbitListener')
                IN  c.kind = "orbit" /\ c.totalRotation = 0
       /\ (lastOp' = "tick" /\ isOrbiting) =>
             LET c == Closure(cur, orbitListener)
                 total == c.totalRotation + Abs(c.speed)
             IN  IF total >= FullCircle
                 THEN ~isOrbiting' /\ Attached("orbit")' = {}
                 ELSE /\ isOrbiting'
                      /\ orbitListener' = orbitListener
                      /\ Closure(cur', orbitListener') =
                            [c EXCEPT !.totalRotation = total]]_vars

\* an orbit with a callback has been started over a running orbit
C32_Witness ==
    /\ lastOp = "startOrbit"
    /\ Before("removeOrbitListener", "addOrbitListener")
    /\ Cardinality(Attached("orbit")) = 1
    /\ LET c == Closure(cur, orbitListener)
       IN  c.totalRotation = 0 /\ c.speed = 180 /\ c.onComplete

(* C33: a leg that flyPath issues with terrain avoidance initialised and  *)
(* content-creation mode on is handed to flyTo with a destination at      *)
(* least the terrain height there (0 without a tile) plus 80 m, and the   *)
(* speed from which its duration is computed lies within                  *)
(* [MIN_SPEED, MAX_SPEED] = [20, 150], whatever speed the caller gave.    *)
(* The same holds of every leg of a flight called with both on, even when *)
(* the mode is switched off before the leg is issued. The legs go to the  *)
(* waypoints in order, one per waypoint.                                   *)
C33_ContentFlightIsSafe ==
    (planner.op = "flyPath" /\ planner.leg.index # 0) =>
        LET leg == planner.leg
        IN  /\ leg.index <= Len(planner.waypoints)
            /\ leg.destination.lat = planner.waypoints[leg.index]
            /\ runs[1].n # 0 => leg.index = runs[1].idx
            /\ planner.done => leg.index = Len(planner.waypoints)
            /\ (leg.content \/ planner.flight.content) =>
                  /\ leg.destination.altitude
                        >= HeightOrZero(leg.destination.lat) + 80
                  /\ MIN_SPEED <= leg.speed /\ leg.speed <= MAX_SPEED
                  /\ AtLeast(leg.duration, Whole(MinLegSeconds))

\* a flight called with the mode on, 500 m/s and 40 m has issued its
\* second leg, at the clamped 150 m/s, after the mode was switched off
C33_Witness ==
    /\ planner.op = "flyPath"
    /\ planner.speed = 500 /\ planner.desired = 40
    /\ planner.flight.content /\ ~planner.leg.content
    /\ planner.leg.index = 2
    /\ planner.leg.speed = 150
    /\ planner.leg.destination.altitude
           >= HeightOrZero(planner.leg.destination.lat) + 80

\* the direction, north (1) or south (-1), in which the lookahead of the
\* i-th waypoint of the call samples: towards the next waypoint, or from
\* the previous one at the last waypoint
AheadOf(i) ==
    LET w == planner.waypoints
    IN  IF i < Len(w) THEN (IF w[i + 1] >= w[i] THEN 1 ELSE -1)
        ELSE IF i > 1 THEN (IF w[i] >= w[i - 1] THEN 1 ELSE -1)
             ELSE 1

(* C34: every altitude returned by adjustPathForTerrainAvoidance, the     *)
(* smoothed interior points included, is at least the highest terrain     *)
(* over the point and its 5 lookahead samples (36 m apart at the default  *)
(* speed) towards the next waypoint, plus 80 m.                            *)
C34_SmoothingKeepsLookahead ==
    Called("adjustPathForTerrainAvoidance") =>
        \A i \in 1..Len(planner.path) :
            planner.path[i].altitude
                >= HighestAhead(planner.waypoints[i], AheadOf(i), 36) + 80

(* C35: adjustPathForTerrainAvoidance returns exactly one path point per  *)
(* input waypoint, in the same order and at the same position, every      *)
(* output altitude is at least baseAltitude, and the waypoint list it was *)
(* given is the same after the call.                                       *)
C35_PathKeepsWaypoints ==
    [][(/\ planner'.op = "adjustPathForTerrainAvoidance"
        /\ ~planner.done /\ planner'.done) =>
          /\ Len(planner'.path) = Len(planner.waypoints)
          /\ \A i \in 1..Len(planner'.path) :
                /\ planner'.path[i].lat = planner.waypoints[i]
                /\ planner'.path[i].altitude >= planner.desired
          /\ planner'.waypoints = planner.waypoints
          /\ planner'.desired = planner.desired
          /\ planner'.terrain = planner.terrain]_vars

\* a path of at least three waypoints has come back with one point at the
\* base altitude and another lifted above it
C35_Witness ==
    /\ Called("adjustPathForTerrainAvoidance")
    /\ Len(planner.waypoints) >= 3
    /\ Len(planner.path) = Len(planner.waypoints)
    /\ \E i, j \in 1..Len(planner.path) :
          /\ planner.path[i].altitude = planner.desired
          /\ planner.path[j].altitude > planner.desired
          /\ planner.waypoints[i] # planner.waypoints[j]

\* an altitude in metres is the rounding of one in units of 1/170 m
RoundsTo(units, metres) ==
    /\ 2 * (units - metres * AltUnit) <= AltUnit
    /\ 2 * (metres * AltUnit - units) <= AltUnit

(* C36: the two preset queries agree: for every preset other than auto    *)
(* and every location, the altitude listed for the preset by              *)
(* getAltitudePresets is getPresetAltitude of that preset rounded to the  *)
(* metre.                                                                  *)
C36_PresetQueriesAgree ==
    /\ Called("getPresetAltitude") /\ planner.preset # "auto" =>
          \A e \in 1..5 :
             LET entry == getAltitudePresets(planner.terrain, planner.pos)[e]
             IN  entry.preset = planner.preset =>
                     RoundsTo(planner.result, entry.altitude)
    /\ Called("getAltitudePresets") =>
          \A e \in 1..Len(planner.listed) :
             planner.listed[e].preset # "auto" =>
                 RoundsTo(getPresetAltitude(planner.terrain,
                              planner.listed[e].preset, planner.pos),
                          planner.listed[e].altitude)

====
